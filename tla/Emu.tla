-------------------------------- MODULE Emu --------------------------------
(***************************************************************************)
(* emufs, the file system on the emulator's pass-through device            *)
(* (dev/lamebus/emu.c).  The device has one set of registers and does one  *)
(* operation at a time; e_lock keeps a thread's operation together, from   *)
(* the first register it writes to the last one it reads.  vnodes are      *)
(* loaded under vfs_biglock and e_lock and hold a handle of the device,    *)
(* which emufs_reclaim closes.  The device gives a handle that is not in   *)
(* use to every open.                                                      *)
(***************************************************************************)
EXTENDS Integers, FiniteSets

CONSTANTS EmuThreads, EmuFiles, Root, EmuHandles, EmuVnodes, RootVnode, EmuNone,
          EMU_MAXIO,      \* in cells of data
          EmuMaxSize,     \* a file is not longer, or the device has no space
          EmuTransfers,   \* offsets and lengths of reads and writes
          EmuRetries,     \* how often emu_close retries
          EmuOpen,
          MediaErrors,    \* operations the device may fail
          EmuNoMems       \* allocations that may fail

VARIABLES hopen,    \* the device: the file of each open handle
          fsize,    \* the length of each file, None if there is no such file
          reg,      \* the device's registers; serves is whose operation was done last
          irq,      \* the device is interrupting
          e_sem, e_result, e_lock,
          ebig,     \* vfs_biglock: its owner and depth
          vnodes,   \* ef_vnodes: the handle of each vnode that is loaded
          emu_refs,     \* their vn_refcount
          emu_held,     \* the vnodes each thread has a reference to
          epc,      \* where each thread is, and in what
          req,      \* its operation
          left,     \* media errors and failed allocations to come
          lost,     \* handles whose close was given up
          unbalanced, \* threads that emufs_loadvnode left with vfs_biglock
          epanic

hwvars == <<hopen, fsize, reg, irq, e_result, e_sem>>
fsvars == <<vnodes, emu_refs, emu_held>>
ghosts == <<lost, unbalanced>>
evars == <<hwvars, e_lock, ebig, fsvars, epc, req, left, ghosts, epanic>>

RootHandle == 0
NoReg == [handle |-> RootHandle, iolen |-> 0, offset |-> 0, name |-> EmuNone,
          oper |-> "none", result |-> "none", by |-> EmuNone, serves |-> EmuNone]
NoReq == [op |-> "none", h |-> EmuNone, file |-> EmuNone, off |-> 0, len |-> 0, v |-> EmuNone, tries |-> 0, new |-> EmuNone]

----------------------------------------------------------------------------
(* The device                                                              *)

\* The result of an operation and what it leaves in the registers.
EmuDo(code) ==
  /\ reg' = [reg EXCEPT !.oper = "none", !.result = code, !.serves = reg.by, !.by = EmuNone]
  /\ UNCHANGED <<hopen, fsize>>

DevOpen ==
  LET free == {h \in EmuHandles : hopen[h] = EmuNone}
      f == reg.name
  IN  IF fsize[f] = EmuNone /\ reg.oper = "OPEN" THEN EmuDo("BADPATH")
      ELSE IF fsize[f] # EmuNone /\ reg.oper = "EXCLCREATE" THEN EmuDo("EXISTS")
      ELSE IF free = {} THEN EmuDo("NOHANDLES")
      ELSE LET h == CHOOSE x \in free : \A y \in free : x <= y
           IN  /\ hopen' = [hopen EXCEPT ![h] = f]
               /\ fsize' = [fsize EXCEPT ![f] = IF @ = EmuNone THEN 0 ELSE @]
               /\ reg' = [reg EXCEPT !.oper = "none", !.result = "SUCCESS", !.serves = reg.by, !.by = EmuNone, !.handle = h, !.iolen = 0]

DevFile ==
  LET f == hopen[reg.handle]
      there == IF fsize[f] <= reg.offset THEN 0 ELSE fsize[f] - reg.offset
      got == IF reg.iolen < there THEN reg.iolen ELSE there
      end == reg.offset + reg.iolen
      Done == [reg EXCEPT !.oper = "none", !.result = "SUCCESS", !.serves = reg.by, !.by = EmuNone]
  IN  CASE reg.oper = "CLOSE" -> hopen' = [hopen EXCEPT ![reg.handle] = EmuNone] /\ reg' = Done /\ UNCHANGED fsize
        [] reg.oper \in {"READ", "READDIR"} -> reg' = [Done EXCEPT !.iolen = got, !.offset = @ + got] /\ UNCHANGED <<hopen, fsize>>
        [] reg.oper = "WRITE" ->
             IF end > EmuMaxSize THEN EmuDo("NOSPACE")
             ELSE fsize' = [fsize EXCEPT ![f] = IF end > @ THEN end ELSE @] /\ reg' = Done /\ UNCHANGED hopen
        [] reg.oper = "GETSIZE" -> reg' = [Done EXCEPT !.iolen = fsize[f]] /\ UNCHANGED <<hopen, fsize>>
        [] reg.oper = "TRUNC" -> fsize' = [fsize EXCEPT ![f] = reg.iolen] /\ reg' = Done /\ UNCHANGED hopen

Opens == {"OPEN", "CREATE", "EXCLCREATE"}

Device ==
  /\ reg.oper # "none" /\ ~irq
  /\ irq' = TRUE
  /\ \/ /\ left.media > 0
        /\ EmuDo("MEDIA") /\ left' = [left EXCEPT !.media = @ - 1]
     \/ /\ IF hopen[reg.handle] = EmuNone THEN EmuDo("BADHANDLE")
           ELSE IF reg.oper \in Opens THEN DevOpen ELSE DevFile
        /\ UNCHANGED left
  /\ UNCHANGED <<e_result, e_sem, e_lock, ebig, fsvars, epc, req, ghosts, epanic>>

emu_irq ==
  /\ irq
  /\ irq' = FALSE /\ e_result' = reg.result /\ e_sem' = e_sem + 1
  /\ reg' = [reg EXCEPT !.result = "none"]
  /\ UNCHANGED <<hopen, fsize, e_lock, ebig, fsvars, epc, req, left, ghosts, epanic>>

translate_err(code) ==
  CASE code = "SUCCESS" -> "ok"
    [] code \in {"BADHANDLE", "BADOP", "BADSIZE"} -> "panic"
    [] code = "BADPATH" -> "ENOENT"
    [] code = "EXISTS" -> "EEXIST"
    [] code \in {"MEDIA", "UNKNOWN"} -> "EIO"
    [] code = "NOHANDLES" -> "ENFILE"
    [] code = "NOSPACE" -> "ENOSPC"
    [] OTHER -> "EAGAIN"

----------------------------------------------------------------------------
(* An operation on the device: e_lock, the registers, the wait             *)

EmuAt(t, where) == epc[t] = where
EmuGoto(t, where) == epc' = [epc EXCEPT ![t] = where]

BigFree(t) == ebig.owner \in {EmuNone, t}
BigTaken(t) == [owner |-> t, depth |-> ebig.depth + 1]
BigGiven == IF ebig.depth = 1 THEN [owner |-> EmuNone, depth |-> 0] ELSE [ebig EXCEPT !.depth = @ - 1]

\* Mutant: the lock is not taken.
emu_lock_none(t) ==
  /\ EmuAt(t, "lock")
  /\ EmuGoto(t, "regs")
  /\ UNCHANGED <<e_lock, hwvars, ebig, fsvars, req, left, ghosts, epanic>>

\* lock_acquire of e_lock; emufs_reclaim calls emu_close with it held.
emu_lock(t) ==
  /\ EmuAt(t, "lock") /\ e_lock = EmuNone
  /\ e_lock' = t /\ EmuGoto(t, "regs")
  /\ UNCHANGED <<hwvars, ebig, fsvars, req, left, ghosts, epanic>>

\* The registers, REG_OPER last.
emu_wreg(t) ==
  /\ EmuAt(t, "regs")
  /\ reg' = [reg EXCEPT !.handle = req[t].h, !.iolen = req[t].len, !.offset = req[t].off, !.name = req[t].file,
                        !.oper = req[t].op, !.by = t]
  /\ EmuGoto(t, "wait")
  /\ UNCHANGED <<hopen, fsize, irq, e_result, e_sem, e_lock, ebig, fsvars, req, left, ghosts, epanic>>

\* emu_write: the data could not be copied from the caller.
emu_write_fault(t) ==
  /\ EmuAt(t, "regs") /\ req[t].op = "WRITE"
  /\ EmuGoto(t, "idle") /\ e_lock' = EmuNone /\ req' = [req EXCEPT ![t] = NoReq]
  /\ UNCHANGED <<hwvars, ebig, fsvars, left, ghosts, epanic>>

\* What emu_open does with the reply.  vfs_lookup gives vfs_biglock back.
emu_open(t, result) ==
  /\ req[t].op \in Opens
  /\ e_lock' = EmuNone
  /\ IF result = "ok"
     THEN EmuGoto(t, "load") /\ req' = [req EXCEPT ![t].new = reg.handle] /\ UNCHANGED ebig
     ELSE /\ EmuGoto(t, "idle") /\ req' = [req EXCEPT ![t] = NoReq]
          /\ ebig' = IF req[t].op = "OPEN" THEN BigGiven ELSE ebig
  /\ UNCHANGED <<fsvars, ghosts>>

\* emu_close is called for a vnode, with e_lock held, or for a handle that has
\* no vnode, after which the caller of emufs_lookup gives vfs_biglock back.
emu_close(t, result) ==
  /\ req[t].op = "CLOSE"
  /\ IF result = "EIO" /\ req[t].tries < EmuRetries
     THEN /\ EmuGoto(t, "regs") /\ req' = [req EXCEPT ![t].tries = @ + 1]
          /\ UNCHANGED <<e_lock, ebig, fsvars, ghosts>>
     ELSE /\ EmuGoto(t, "idle") /\ req' = [req EXCEPT ![t] = NoReq]
          /\ e_lock' = EmuNone
          /\ ebig' = IF req[t].new = "creat" THEN ebig ELSE BigGiven
          /\ lost' = IF result = "ok" THEN lost ELSE lost \cup {req[t].h}
          /\ IF req[t].v # EmuNone /\ result = "ok"
             THEN vnodes' = [vnodes EXCEPT ![req[t].v] = EmuNone] /\ emu_refs' = [emu_refs EXCEPT ![req[t].v] = 0]
             ELSE UNCHANGED <<vnodes, emu_refs>>
          /\ UNCHANGED <<emu_held, unbalanced>>

\* emu_doread and emu_write end, and the loops of emufs_read and emufs_write
\* go on with the next EMU_MAXIO cells; the end of the file ends a read.
\* emufs_getdirentry has no loop.
Moved(t) == IF req[t].op = "WRITE" THEN req[t].len ELSE reg.iolen
emu_io(t, result) ==
  /\ req[t].op \in {"READ", "WRITE", "READDIR"}
  /\ e_lock' = EmuNone
  /\ LET rest == req[t].tries - Moved(t)
     IN  IF result = "ok" /\ req[t].op # "READDIR" /\ Moved(t) > 0 /\ rest > 0
         THEN /\ EmuGoto(t, "lock")
              /\ req' = [req EXCEPT ![t].tries = rest, ![t].off = @ + Moved(t),
                                    ![t].len = IF rest > EMU_MAXIO THEN EMU_MAXIO ELSE rest]
         ELSE EmuGoto(t, "idle") /\ req' = [req EXCEPT ![t] = NoReq]
  /\ UNCHANGED <<ebig, fsvars, ghosts>>

\* Mutant: the lock is not released.
emu_getsize_trunc_locked(t) ==
  /\ req[t].op \in {"GETSIZE", "TRUNC"}
  /\ EmuGoto(t, "idle") /\ req' = [req EXCEPT ![t] = NoReq]
  /\ UNCHANGED <<e_lock, ebig, fsvars, ghosts>>

emu_getsize_trunc(t) ==
  /\ req[t].op \in {"GETSIZE", "TRUNC"}
  /\ e_lock' = EmuNone /\ EmuGoto(t, "idle") /\ req' = [req EXCEPT ![t] = NoReq]
  /\ UNCHANGED <<ebig, fsvars, ghosts>>

\* The registers are of no interest once their reader has gone on.
emu_waitdone(t) ==
  LET result == translate_err(e_result)
  IN  /\ EmuAt(t, "wait") /\ e_sem > 0
      /\ e_sem' = e_sem - 1
      /\ IF result = "panic"
         THEN epanic' = TRUE /\ UNCHANGED <<epc, req, e_lock, ebig, fsvars, ghosts>>
         ELSE /\ emu_open(t, result) \/ emu_close(t, result) \/ emu_io(t, result) \/ emu_getsize_trunc(t)
              /\ UNCHANGED epanic
      /\ reg' = [NoReg EXCEPT !.oper = reg.oper, !.by = reg.by] /\ e_result' = "none"
      /\ UNCHANGED <<hopen, fsize, irq, left>>

----------------------------------------------------------------------------
(* vnode operations: what the tables have for files and for directories    *)

Unsupported == {"SYMLINK", "MKDIR", "LINK", "REMOVE", "RMDIR", "RENAME"}
NameOps == Unsupported \cup {"CREATE", "EXCLCREATE", "OPEN", "LOOKPARENT"}

emufs_fileops(op) ==
  CASE op \in NameOps \cup {"READDIR", "NAMEFILE"} -> "ENOTDIR"
    [] op \in {"READLINK", "IOCTL"} -> "EINVAL"
    [] op = "MMAP" -> "ENOSYS"
    [] OTHER -> "call"

emufs_dirops(op) ==
  CASE op \in Unsupported -> "ENOSYS"
    [] op \in {"READ", "WRITE", "READLINK", "FSYNC", "MMAP"} -> "EISDIR"
    [] op = "TRUNC" -> "ENOTDIR"
    [] op = "IOCTL" -> "EINVAL"
    [] OTHER -> "call"

\* The operation op on vnode v goes to the device.
Calls(v, op) == (IF v = RootVnode THEN emufs_dirops(op) ELSE emufs_fileops(op)) = "call"

\* Bound: a thread opens a file while it has fewer than EmuOpen.
MayOpen(t) == Cardinality(emu_held[t]) < EmuOpen

Begin(t, r) == EmuAt(t, "idle") /\ EmuGoto(t, "lock") /\ req' = [req EXCEPT ![t] = r]

\* vfs_lookup holds vfs_biglock while it calls VOP_LOOKUP.
emufs_lookup(t) ==
  /\ MayOpen(t) /\ BigFree(t) /\ ebig' = BigTaken(t)
  /\ \E f \in EmuFiles : Begin(t, [NoReq EXCEPT !.op = "OPEN", !.h = RootHandle, !.file = f])
  /\ UNCHANGED <<hwvars, e_lock, fsvars, left, ghosts, epanic>>

\* vfs_open does not hold it when it calls VOP_CREAT.
emufs_creat(t) ==
  /\ MayOpen(t)
  /\ \E f \in EmuFiles, op \in {"CREATE", "EXCLCREATE"} :
       Calls(RootVnode, op) /\
       Begin(t, [NoReq EXCEPT !.op = op, !.h = RootHandle, !.file = f])
  /\ UNCHANGED <<hwvars, e_lock, ebig, fsvars, left, ghosts, epanic>>

\* emufs_read, emufs_write, emufs_stat and emufs_truncate; tries is what is
\* left of the transfer.
emufs_io(t) ==
  /\ \E v \in emu_held[t], op \in {"READ", "WRITE", "READDIR"}, x \in EmuTransfers :
       /\ Calls(v, op)
       /\ Begin(t, [NoReq EXCEPT !.op = op, !.h = vnodes[v], !.off = x.off, !.tries = x.len,
                                 !.len = IF x.len > EMU_MAXIO THEN EMU_MAXIO ELSE x.len])
  /\ UNCHANGED <<hwvars, e_lock, ebig, fsvars, left, ghosts, epanic>>

emufs_stat_truncate(t) ==
  /\ \/ \E v \in emu_held[t] : Begin(t, [NoReq EXCEPT !.op = "GETSIZE", !.h = vnodes[v]])
     \/ \E v \in emu_held[t] : Calls(v, "TRUNC") /\ Begin(t, [NoReq EXCEPT !.op = "TRUNC", !.h = vnodes[v]])
  /\ UNCHANGED <<hwvars, e_lock, ebig, fsvars, left, ghosts, epanic>>

emufs_getroot(t) ==
  /\ MayOpen(t) /\ EmuAt(t, "idle") /\ RootVnode \notin emu_held[t]
  /\ emu_held' = [emu_held EXCEPT ![t] = @ \cup {RootVnode}] /\ emu_refs' = [emu_refs EXCEPT ![RootVnode] = @ + 1]
  /\ UNCHANGED <<hwvars, e_lock, ebig, vnodes, epc, req, left, ghosts, epanic>>

\* A thread passes a file on to another one.
vnode_incref(t) ==
  /\ EmuAt(t, "idle")
  /\ \E v \in emu_held[t] \ {RootVnode}, u \in EmuThreads :
       /\ v \notin emu_held[u]
       /\ emu_held' = [emu_held EXCEPT ![u] = @ \cup {v}] /\ emu_refs' = [emu_refs EXCEPT ![v] = @ + 1]
  /\ UNCHANGED <<hwvars, e_lock, ebig, vnodes, epc, req, left, ghosts, epanic>>

\* Both locks of emufs_loadvnode and of emufs_reclaim, in this order.
emufs_big(t) ==
  /\ epc[t] \in {"load", "reclaim"} /\ BigFree(t)
  /\ ebig' = BigTaken(t) /\ EmuGoto(t, IF EmuAt(t, "load") THEN "load2" ELSE "reclaim2")
  /\ UNCHANGED <<hwvars, e_lock, fsvars, req, left, ghosts, epanic>>

Unloaded == {v \in EmuVnodes : vnodes[v] = EmuNone}

\* The handle is given back; new tells emu_close who has called.
CloseAfter(t) ==
  req' = [req EXCEPT ![t] = [NoReq EXCEPT !.op = "CLOSE", !.h = req[t].new,
                                          !.new = IF req[t].op = "OPEN" THEN "lookup" ELSE "creat"]]

\* The device never gives out a handle that a vnode has, so that the search of
\* ef_vnodes finds none here.
emufs_loadvnode(t) ==
  /\ EmuAt(t, "load2") /\ e_lock = EmuNone
  /\ LET mine == {v \in EmuVnodes : vnodes[v] = req[t].new}
     IN  \E v \in IF mine = {} THEN Unloaded ELSE mine :
           /\ vnodes' = [vnodes EXCEPT ![v] = req[t].new]
           /\ emu_refs' = [emu_refs EXCEPT ![v] = @ + 1]
           /\ emu_held' = [emu_held EXCEPT ![t] = @ \cup {v}]
  /\ ebig' = IF req[t].op # "OPEN" \/ ebig.depth = 1 THEN BigGiven
             ELSE IF ebig.depth = 2 THEN [owner |-> EmuNone, depth |-> 0] ELSE [ebig EXCEPT !.depth = @ - 2]
  /\ EmuGoto(t, "idle") /\ req' = [req EXCEPT ![t] = NoReq]
  /\ UNCHANGED <<hwvars, e_lock, left, ghosts, epanic>>

\* Mutant: the handle stays open.
emufs_loadvnode_nomem_open(t) ==
  /\ EmuAt(t, "load2") /\ e_lock = EmuNone /\ left.nomem > 0
  /\ left' = [left EXCEPT !.nomem = @ - 1]
  /\ ebig' = BigGiven /\ UNCHANGED unbalanced
  /\ EmuGoto(t, "idle") /\ req' = [req EXCEPT ![t] = NoReq]
  /\ UNCHANGED <<hwvars, e_lock, fsvars, lost, epanic>>

\* kmalloc fails: e_lock is released and vfs_biglock is not.  vnodearray_add
\* fails: both are.
emufs_loadvnode_nomem(t) ==
  /\ EmuAt(t, "load2") /\ e_lock = EmuNone /\ left.nomem > 0
  /\ left' = [left EXCEPT !.nomem = @ - 1]
  /\ \/ unbalanced' = unbalanced \cup {t} /\ UNCHANGED ebig
     \/ ebig' = BigGiven /\ UNCHANGED unbalanced
  /\ EmuGoto(t, "lock") /\ CloseAfter(t)
  /\ UNCHANGED <<hwvars, e_lock, fsvars, lost, epanic>>

\* VOP_DECREF passes the last reference to emufs_reclaim.
emu_vnode_decref(t) ==
  /\ EmuAt(t, "idle")
  /\ \E v \in emu_held[t] :
       /\ emu_held' = [emu_held EXCEPT ![t] = @ \ {v}]
       /\ IF emu_refs[v] > 1
          THEN emu_refs' = [emu_refs EXCEPT ![v] = @ - 1] /\ UNCHANGED <<epc, req>>
          ELSE EmuGoto(t, "reclaim") /\ req' = [req EXCEPT ![t] = [NoReq EXCEPT !.v = v]] /\ UNCHANGED emu_refs
  /\ UNCHANGED <<hwvars, e_lock, ebig, vnodes, left, ghosts, epanic>>

emufs_reclaim(t) ==
  LET v == req[t].v
  IN  /\ EmuAt(t, "reclaim2") /\ e_lock = EmuNone
      /\ IF emu_refs[v] > 1
         THEN /\ emu_refs' = [emu_refs EXCEPT ![v] = @ - 1] /\ ebig' = BigGiven
              /\ EmuGoto(t, "idle") /\ req' = [req EXCEPT ![t] = NoReq] /\ UNCHANGED e_lock
         ELSE /\ e_lock' = t /\ EmuGoto(t, "regs")
              /\ req' = [req EXCEPT ![t].op = "CLOSE", ![t].h = vnodes[v]] /\ UNCHANGED <<ebig, emu_refs>>
      /\ UNCHANGED <<hwvars, vnodes, emu_held, left, ghosts, epanic>>

----------------------------------------------------------------------------

EmuInit ==
  /\ hopen = [h \in EmuHandles |-> IF h = RootHandle THEN Root ELSE EmuNone]
  /\ fsize \in {[f \in EmuFiles \cup {Root} |-> IF f \in E THEN 0 ELSE EmuNone] : E \in {{Root}, {Root} \cup EmuFiles}}
  /\ reg = NoReg
  /\ irq = FALSE /\ e_sem = 0 /\ e_result = "none" /\ e_lock = EmuNone
  /\ ebig = [owner |-> EmuNone, depth |-> 0]
  /\ vnodes = [v \in EmuVnodes \cup {RootVnode} |-> IF v = RootVnode THEN RootHandle ELSE EmuNone]
  /\ emu_refs = [v \in EmuVnodes \cup {RootVnode} |-> IF v = RootVnode THEN 1 ELSE 0]
  /\ emu_held = [t \in EmuThreads |-> {}]
  /\ epc = [t \in EmuThreads |-> "idle"]
  /\ req = [t \in EmuThreads |-> NoReq]
  /\ left = [media |-> MediaErrors, nomem |-> EmuNoMems]
  /\ lost = {} /\ unbalanced = {} /\ epanic = FALSE

EmuStep(t) ==
  \/ emu_lock(t) \/ emu_wreg(t) \/ emu_write_fault(t) \/ emu_waitdone(t)
  \/ emufs_big(t) \/ emufs_loadvnode(t) \/ emufs_loadvnode_nomem(t) \/ emufs_reclaim(t)

EmuCall(t) ==
  \/ emufs_lookup(t) \/ emufs_creat(t) \/ emufs_io(t) \/ emufs_stat_truncate(t)
  \/ emufs_getroot(t) \/ vnode_incref(t) \/ emu_vnode_decref(t)

EmuNext == ~epanic /\ (Device \/ emu_irq \/ \E t \in EmuThreads : EmuStep(t) \/ EmuCall(t))

EmuSpec == EmuInit /\ [][EmuNext]_evars

----------------------------------------------------------------------------

\* Handles a thread has opened and not yet given to a vnode, or is closing.
InFlight == (IF \E t \in EmuThreads : EmuAt(t, "wait") /\ req[t].op \in Opens THEN {reg.handle} ELSE {})
              \cup {req[t].new : t \in {u \in EmuThreads : epc[u] \in {"load", "load2"}}}
              \cup {req[t].h : t \in {u \in EmuThreads : req[u].op = "CLOSE"}}

\* The handles that are open on the device are those of the vnodes in
\* ef_vnodes, those of threads between emu_open and emufs_loadvnode or in
\* emu_close, and those whose close failed more often than emu_close retries;
\* no operation is on a handle that is not open, so translate_err never panics.
EmuHandlesExact ==
  /\ ~epanic
  /\ LET open == {h \in EmuHandles : hopen[h] # EmuNone}
         known == {vnodes[v] : v \in DOMAIN vnodes} \ {EmuNone}
     IN  /\ open \subseteq known \cup InFlight \cup lost
         /\ known \subseteq open \cup InFlight

\* The reply a thread finds in the registers when emu_waitdone returns is the
\* one to its own operation, and the semaphore counts no other.
EmuReplyIsMine ==
  /\ e_sem <= 1
  /\ \A t \in EmuThreads : EmuAt(t, "wait") /\ e_sem > 0 => e_lock = t /\ reg.serves = t

\* A thread that is back from its call holds neither lock, unless
\* emufs_loadvnode returned ENOMEM from kmalloc: that path releases e_lock
\* alone.
EmuLocksReturned ==
  \A t \in EmuThreads : EmuAt(t, "idle") => e_lock # t /\ (ebig.owner = t => t \in unbalanced)

============================================================================
