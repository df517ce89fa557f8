------------------------------ MODULE VirtioBlk ------------------------------
(***************************************************************************)
(* The driver of the virtio block device                                   *)
(* (src/src/kernel/kernel_virtio_blk.c) as c_entry() of kernel_main.c uses *)
(* it, and the device itself (external).                                   *)
(*                                                                         *)
(* c_entry() initialises the driver and reads sector 0 with interrupts     *)
(* masked, and goes on whatever virtio_blk_init() returns.  Threads may    *)
(* read more sectors later, one at a time: request, ring and descriptors   *)
(* are static and unlocked.  A sector's data are represented by its        *)
(* number, and every descriptor chain starts at entry 0, as in the code.   *)
(* The wfe of the wait loop is a hint, as the emulator has it.             *)
(***************************************************************************)
EXTENDS DriverRegistry

CONSTANTS
    Disk,             \* the block device among Devices
    Sectors,
    BadSectors,       \* those that the device cannot read
    VIRTQ_ENTRY_NUM,  \* entries of the driver's rings: 16
    QueueMaxes,       \* what devices report as their largest queue
    INDEX_MOD         \* ring indexes count modulo this: 2^16

ASSUME DiskAssumption    == Disk \in Devices
ASSUME SectorsAssumption == 0 \in Sectors /\ BadSectors \subseteq Sectors
ASSUME QueueAssumption   == /\ VIRTQ_ENTRY_NUM \in Nat /\ QueueMaxes \subseteq Nat
                            /\ INDEX_MOD \in Nat /\ INDEX_MOD > 1

VIRTIO_BLK_S_OK    == 0
VIRTIO_BLK_S_IOERR == 1
Unanswered         == 255   \* what the driver sets req.status to

\* c_entry() before virtio_blk_init(), in it, before its first read; and
\* virtio_blk_read_sector() before its line of that name.
BlkPcs == {"init", "register", "boot", "publish", "notify", "wait", "copy", "return",
           "ready", "off"}

VARIABLES
    present,       \* whether there is a block device
    q_max,         \* what it reports as QUEUE_NUM_MAX
    blk_pc,
    vring,         \* dev->vring # 0
    q_size,        \* dev->actual_q_size
    avail_index,
    used_index,
    last_used_idx,
    req,           \* [sector, status]
    req_data,      \* the sector that req.data has, or Unread
    buf,           \* the same of the caller's buffer
    ret,           \* what virtio_blk_read_sector() returned
    disk_pc,       \* the device: idle, reading, or with the data written
    seen,          \* the device's own index into the available ring
    notified       \* QUEUE_NOTIFY has been written

driver  == <<vring, q_size, avail_index, last_used_idx, buf, ret>>
disk    == <<disk_pc, seen, used_index>>
shared  == <<req, req_data, notified>>
machine == <<present, q_max>>
blkVars == <<present, q_max, blk_pc, vring, q_size, avail_index, used_index, last_used_idx,
             req, req_data, buf, ret, disk_pc, seen, notified>>

Unread == -1
Incr(i) == IF i = INDEX_MOD - 1 THEN 0 ELSE i + 1

BlkInit ==
    /\ present \in BOOLEAN
    /\ q_max \in QueueMaxes
    /\ blk_pc = "init"
    /\ vring = FALSE
    /\ q_size = 0
    /\ avail_index = 0 /\ used_index = 0 /\ last_used_idx = 0
    /\ req = [sector |-> 0, status |-> 0]
    /\ req_data = Unread
    /\ buf = Unread
    /\ ret = Unanswered
    /\ disk_pc = "idle"
    /\ seen = 0
    /\ notified = FALSE

-----------------------------------------------------------------------------
(* The driver.                                                              *)

BlkStep(from, to) == blk_pc = from /\ blk_pc' = to

\* virtio_blk_init() up to register_driver(), or to the error that c_entry()
\* ignores.  The table for the device's page is in Boot (CEntry).
VirtioBlkInit ==
    /\ IF present
          THEN /\ BlkStep("init", "register")
               /\ vring' = TRUE
               /\ q_size' = IF q_max < VIRTQ_ENTRY_NUM THEN q_max ELSE VIRTQ_ENTRY_NUM
               /\ last_used_idx' = 0
               /\ Register(Disk)
          ELSE /\ BlkStep("init", "boot")
               /\ UNCHANGED <<vring, q_size, last_used_idx, registry>>
    /\ UNCHANGED <<machine, avail_index, buf, ret, disk, shared, core>>

VirtioBlkRegistered ==
    /\ BlkStep("register", "boot")
    /\ reg_pc = "idle" /\ print = "no"
    /\ UNCHANGED <<machine, driver, disk, shared, registry, core>>

\* virtio_blk_read_sector() up to the first barrier.  Without a device
\* dev->vring is null, and the abort turns the machine off.
Read(from, s) ==
    /\ BlkStep(from, IF vring THEN "publish" ELSE "off")
    /\ req' = [sector |-> s, status |-> Unanswered]
    /\ UNCHANGED <<machine, driver, disk, req_data, notified, registry, core>>

Publish ==
    /\ BlkStep("publish", "notify")
    /\ avail_index' = Incr(avail_index)
    /\ UNCHANGED <<machine, vring, q_size, last_used_idx, buf, ret, disk, shared, registry, core>>

Notify ==
    /\ BlkStep("notify", "wait")
    /\ notified' = TRUE
    /\ UNCHANGED <<machine, driver, disk, req, req_data, registry, core>>

WaitUsedGreater ==                                       \* mutant
    /\ BlkStep("wait", "copy")
    /\ used_index > last_used_idx
    /\ UNCHANGED <<machine, driver, disk, shared, registry, core>>

WaitUsed ==
    /\ BlkStep("wait", "copy")
    /\ used_index # last_used_idx
    /\ UNCHANGED <<machine, driver, disk, shared, registry, core>>

Copy ==
    /\ BlkStep("copy", "return")
    /\ buf' = req_data
    /\ UNCHANGED <<machine, vring, q_size, avail_index, last_used_idx, ret, disk, shared,
                   registry, core>>

ReturnKeepsIndex ==                                      \* mutant
    /\ BlkStep("return", "ready")
    /\ ret' = req.status
    /\ UNCHANGED <<machine, vring, q_size, avail_index, last_used_idx, buf, disk, shared,
                   registry, core>>

Return ==
    /\ BlkStep("return", "ready")
    /\ last_used_idx' = used_index
    /\ ret' = req.status
    /\ UNCHANGED <<machine, vring, q_size, avail_index, buf, disk, shared, registry, core>>

-----------------------------------------------------------------------------
(* The device (external).                                                   *)

\* It looks into the available ring when it is notified, at the place that the
\* size of its queue gives: where the driver's ring is only if it has as many
\* entries as the driver laid it out for.
DiskTakes ==
    /\ notified
    /\ disk_pc = "idle"
    /\ IF q_size = VIRTQ_ENTRY_NUM /\ seen # avail_index
          THEN disk_pc' = "reading" /\ seen' = Incr(seen) /\ UNCHANGED notified
          ELSE notified' = FALSE /\ UNCHANGED <<disk_pc, seen>>
    /\ UNCHANGED <<machine, blk_pc, driver, used_index, req, req_data, registry, core>>

DiskWrites ==
    /\ disk_pc = "reading"
    /\ disk_pc' = "written"
    /\ IF req.sector \in BadSectors
          THEN req_data' \in {req_data, Unread} /\ req' = [req EXCEPT !.status = VIRTIO_BLK_S_IOERR]
          ELSE req_data' = req.sector /\ req' = [req EXCEPT !.status = VIRTIO_BLK_S_OK]
    /\ UNCHANGED <<machine, blk_pc, driver, seen, used_index, notified, registry, core>>

\* The used ring, then the interrupt.
DiskAnswers ==
    /\ disk_pc = "written"
    /\ disk_pc' = "idle"
    /\ used_index' = Incr(used_index)
    /\ line' = line \cup {Disk}
    /\ UNCHANGED <<machine, blk_pc, driver, seen, shared, registry, masked, spinning>>

-----------------------------------------------------------------------------
BlkSteps  == \/ VirtioBlkInit \/ VirtioBlkRegistered \/ Read("boot", 0)
             \/ Publish \/ Notify \/ WaitUsed \/ Copy \/ Return
DiskSteps == DiskTakes \/ DiskWrites \/ DiskAnswers

-----------------------------------------------------------------------------
(* Properties.                                                              *)

Indexes == 0..(INDEX_MOD - 1)

BlkTypeOK ==
    /\ present \in BOOLEAN /\ vring \in BOOLEAN /\ notified \in BOOLEAN
    /\ q_max \in Nat /\ q_size \in 0..VIRTQ_ENTRY_NUM
    /\ blk_pc \in BlkPcs
    /\ avail_index \in Indexes /\ used_index \in Indexes /\ last_used_idx \in Indexes
    /\ seen \in Indexes
    /\ req \in [sector : Sectors, status : {VIRTIO_BLK_S_OK, VIRTIO_BLK_S_IOERR, Unanswered}]
    /\ req_data \in Sectors \cup {Unread} /\ buf \in Sectors \cup {Unread}
    /\ ret \in {VIRTIO_BLK_S_OK, VIRTIO_BLK_S_IOERR, Unanswered}
    /\ disk_pc \in {"idle", "reading", "written"}

\* A read that returns VIRTIO_BLK_S_OK has filled the caller's buffer with the
\* sector it was asked for, not with what the static request held before or got
\* later, however often the ring's indexes have wrapped around; one that returns
\* anything else returns the device's error.
ReadsItsSector ==
    blk_pc = "ready" =>
        IF req.sector \in BadSectors THEN ret = VIRTIO_BLK_S_IOERR
                                     ELSE ret = VIRTIO_BLK_S_OK /\ buf = req.sector

=============================================================================
