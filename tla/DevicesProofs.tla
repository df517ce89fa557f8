---------------------------- MODULE DevicesProofs ----------------------------
(***************************************************************************)
(* Theorems about Devices: its types, that an enabled interrupt has its    *)
(* handler, and that a read returns the sector it was asked for; for every *)
(* set of devices and sectors, every size of the table, of the rings and   *)
(* of the command queue, and every modulus of the ring's indexes.          *)
(***************************************************************************)
EXTENDS Devices, ItsQueueProofs

LEMMA IndexFacts ==
    /\ 0 \in Indexes
    /\ \A i \in Indexes : Incr(i) \in Indexes /\ Incr(i) # i
BY QueueAssumption DEF Indexes, Incr

-----------------------------------------------------------------------------
(* The steps of Devices as steps of its parts.                              *)

RegNext == \/ \E d \in Devices : Register(d) /\ UNCHANGED core
           \/ RegSteps
           \/ \E d \in Devices : Dispatch(d) \/ Raise(d)
           \/ Unmask
           \/ line' = line \cup {Disk} /\ UNCHANGED <<registry, masked, spinning>>
           \/ print' = "called" /\ UNCHANGED <<table, core>>

BlkNext == BlkSteps \/ DiskSteps \/ \E s \in Sectors : Read("ready", s)

LEMMA RegRefines == [Next]_vars => [RegNext]_regVars
<1> SUFFICES ASSUME [Next]_vars PROVE [RegNext]_regVars
  OBVIOUS
<1> USE DiskAssumption
<1>1. CASE \E s \in Sectors : Read("ready", s)
  BY <1>1 DEF Read, regVars, registry, core
<1>2. CASE CallRegister \/ CallSwitch
  BY <1>2 DEF CallRegister, CallSwitch, RegNext
<1>3. CASE UNCHANGED regVars
  BY <1>3
<1>4. CASE BlkSteps
  <2>1. CASE VirtioBlkInit
    BY <2>1 DEF VirtioBlkInit, RegNext, regVars
  <2> QED
    BY <1>4, <2>1 DEF BlkSteps, VirtioBlkRegistered, Read, Publish, Notify, WaitUsed, Copy,
                      Return, regVars
<1>5. CASE RegSteps \/ Unmask
  BY <1>5 DEF RegNext
<1>6. CASE DiskSteps
  BY <1>6 DEF DiskSteps, DiskTakes, DiskWrites, DiskAnswers, RegNext, regVars
<1>7. CASE \E d \in Devices : Dispatch(d) \/ Raise(d)
  BY <1>7 DEF RegNext
<1> QED
  BY <1>1, <1>2, <1>3, <1>4, <1>5, <1>6, <1>7
  DEF Next, CallRead, CallIts, Thread, DiskActs, ItsActs, Interrupt, vars

LEMMA BlkRefines == [Next]_vars => [BlkNext]_blkVars
<1> SUFFICES ASSUME [Next]_vars PROVE [BlkNext]_blkVars
  OBVIOUS
<1> QED
  BY DEF Next, CallRead, CallRegister, CallIts, CallSwitch, Thread, DiskActs, ItsActs,
         Interrupt, vars, BlkNext

LEMMA ItsRefines == [Next]_vars => [ItsNext]_itsVars
<1> SUFFICES ASSUME [Next]_vars PROVE [ItsNext]_itsVars
  OBVIOUS
<1> QED
  BY DEF Next, CallRead, CallRegister, CallIts, CallSwitch, Thread, DiskActs, ItsActs,
         Interrupt, vars, ItsNext

\* What is proved of the ITS driver holds of the kernel that also reads the
\* disk and registers drivers.
THEOREM DevicesRunIts == Spec => ItsSpec
<1>1. Init => ItsInit
  BY DEF Init
<1> QED
  BY <1>1, ItsRefines, PTL DEF Spec, ItsSpec

-----------------------------------------------------------------------------
(* The registry.  The invariant says which fields of the next entry have    *)
(* been written at each point of register_driver(), and that the counted    *)
(* entries are complete.                                                    *)

Counted == 0..(driver_count - 1)

RegInv ==
    /\ RegTypeOK
    /\ reg_pc # "idle" => registering \in Devices
    /\ reg_pc \in {"irq_id", "handler", "device", "count"} => driver_count < MAX_DRIVERS
    /\ reg_pc \in {"handler", "device", "count"}
          => driver_registry[driver_count].irq_id = registering
    /\ reg_pc \in {"device", "count"} => driver_registry[driver_count].handler = registering
    /\ reg_pc = "count" => driver_registry[driver_count].device = registering
    /\ reg_pc = "conf" => \E i \in Counted : driver_registry[i].irq_id = registering
    /\ \A i \in Counted : /\ driver_registry[i].irq_id \in Devices
                          /\ driver_registry[i].handler = driver_registry[i].irq_id
                          /\ driver_registry[i].device = driver_registry[i].irq_id
    /\ \A d \in enabled : \E i \in Counted : driver_registry[i].irq_id = d

LEMMA RegInvInit == RegInit => RegInv
<1> SUFFICES ASSUME RegInit PROVE RegInv
  OBVIOUS
<1>1. RegTypeOK
  <2>1. driver_registry \in [Entries -> [irq_id  : Devices \cup {NoDevice},
                                           handler : Devices \cup {NoDevice},
                                           device  : Devices \cup {NoDevice}]]
    BY DEF RegInit
  <2>2. driver_count \in 0..MAX_DRIVERS
    BY MaxDriversAssumption DEF RegInit
  <2>3. reg_pc \in RegPcs /\ print \in PrintPcs
    BY DEF RegInit, RegPcs, PrintPcs
  <2> QED
    BY <2>1, <2>2, <2>3 DEF RegInit, RegTypeOK
<1>2. Counted = {}
  BY DEF RegInit, Counted
<1> QED
  BY <1>1, <1>2 DEF RegInit, RegInv

LEMMA RegInvStep == RegInv /\ [RegNext]_regVars => RegInv'
<1> SUFFICES ASSUME RegInv, [RegNext]_regVars PROVE RegInv'
  OBVIOUS
<1> USE MaxDriversAssumption, DiskAssumption
    DEF RegInv, RegTypeOK, RegPcs, PrintPcs, Entries, Counted, RegStep, core
<1>1. ASSUME NEW d \in Devices, Register(d), UNCHANGED core PROVE RegInv'
  BY <1>1 DEF Register
<1>2. CASE RegIrqId
  <2>1. \A i \in Counted : driver_registry'[i] = driver_registry[i]
    BY <1>2 DEF RegIrqId
  <2>2. RegTypeOK' /\ driver_registry'[driver_count].irq_id = registering
    BY <1>2 DEF RegIrqId
  <2> QED
    BY <1>2, <2>1, <2>2 DEF RegIrqId
<1>3. CASE RegHandler
  <2>1. \A i \in Counted : driver_registry'[i] = driver_registry[i]
    BY <1>3 DEF RegHandler
  <2>2. RegTypeOK' /\ driver_registry'[driver_count].irq_id = registering
                  /\ driver_registry'[driver_count].handler = registering
    BY <1>3 DEF RegHandler
  <2> QED
    BY <1>3, <2>1, <2>2 DEF RegHandler
<1>4. CASE RegDevice
  <2>1. \A i \in Counted : driver_registry'[i] = driver_registry[i]
    BY <1>4 DEF RegDevice
  <2>2. RegTypeOK' /\ driver_registry'[driver_count].irq_id = registering
                  /\ driver_registry'[driver_count].handler = registering
                  /\ driver_registry'[driver_count].device = registering
    BY <1>4 DEF RegDevice
  <2> QED
    BY <1>4, <2>1, <2>2 DEF RegDevice
<1>5. CASE RegCount
  <2>1. driver_count' = driver_count + 1 /\ driver_count' \in 0..MAX_DRIVERS
    BY <1>5 DEF RegCount
  <2>2. \A i \in Counted' : i \in Counted \/ i = driver_count
    BY <2>1
  <2>3. \A i \in Counted : i \in Counted'
    BY <2>1
  <2>4. driver_count \in Counted'
    BY <2>1
  <2>5. \A i \in Counted' : /\ driver_registry[i].irq_id \in Devices
                            /\ driver_registry[i].handler = driver_registry[i].irq_id
                            /\ driver_registry[i].device = driver_registry[i].irq_id
    BY <1>5, <2>2 DEF RegCount
  <2>6. \A d \in enabled : \E i \in Counted' : driver_registry[i].irq_id = d
    BY <2>3
  <2> QED
    BY <1>5, <2>1, <2>4, <2>5, <2>6 DEF RegCount
<1>6. CASE RegConf
  BY <1>6 DEF RegConf
<1>7. ASSUME NEW d \in Devices, Dispatch(d) \/ Raise(d) PROVE RegInv'
  BY <1>7 DEF Dispatch, Raise, registry, table
<1>8. CASE Unmask \/ (line' = line \cup {Disk} /\ UNCHANGED <<registry, masked, spinning>>)
  BY <1>8 DEF Unmask, registry, table
<1>9. CASE \/ TakeKernelLock \/ ReleaseKernelLock
           \/ print' = "called" /\ UNCHANGED <<table, core>>
  BY <1>9 DEF TakeKernelLock, ReleaseKernelLock, table
<1>10. CASE UNCHANGED regVars
  BY <1>10 DEF regVars, registry, table
<1> QED
  BY <1>1, <1>2, <1>3, <1>4, <1>5, <1>6, <1>7, <1>8, <1>9, <1>10 DEF RegNext, RegSteps

LEMMA RegInvAlways == Spec => []RegInv
<1>1. Init => RegInv
  BY RegInvInit DEF Init
<1> QED
  BY <1>1, RegRefines, RegInvStep, PTL DEF Spec

\* An interrupt that comes between the steps of register_driver() finds its
\* handler and its device.
THEOREM EnabledHasHandlerAlways == Spec => []EnabledHasHandler
<1>1. RegInv => EnabledHasHandler
  <2> SUFFICES ASSUME RegInv, NEW d \in enabled
               PROVE  /\ Matches(d) # {}
                      /\ \A i \in Matches(d) : /\ driver_registry[i].handler = d
                                               /\ driver_registry[i].device = d
    BY DEF EnabledHasHandler
  <2>1. d \in Devices /\ d # NoDevice
    BY DevicesAssumption DEF RegInv, RegTypeOK
  <2> QED
    BY <2>1 DEF RegInv, Counted, Matches
<1> QED
  BY <1>1, RegInvAlways, PTL

-----------------------------------------------------------------------------
(* The disk.  The invariant relates the four indexes at each point of a     *)
(* read: the device is at rest unless the driver has published a request,   *)
(* and then at one of four phases of its answer.                            *)

\* The device has stored its answer to the request.
Answered ==
    IF req.sector \in BadSectors
       THEN req.status = VIRTIO_BLK_S_IOERR
       ELSE req.status = VIRTIO_BLK_S_OK /\ req_data = req.sector

AtRest ==
    disk_pc = "idle" /\ seen = avail_index /\ used_index = avail_index
                     /\ last_used_idx = avail_index

Published ==
    /\ disk_pc = "idle"
    /\ seen = last_used_idx /\ used_index = last_used_idx /\ avail_index = Incr(last_used_idx)

Taken ==
    /\ disk_pc \in {"reading", "written"}
    /\ used_index = last_used_idx
    /\ avail_index = Incr(last_used_idx) /\ seen = avail_index
    /\ disk_pc = "written" => Answered

Used ==
    /\ disk_pc = "idle"
    /\ avail_index = Incr(last_used_idx) /\ seen = avail_index /\ used_index = avail_index
    /\ Answered

BlkInv ==
    /\ BlkTypeOK
    /\ blk_pc = "init" => avail_index = 0
    /\ blk_pc \in {"init", "register", "boot", "publish", "ready", "off"} => AtRest
    /\ blk_pc \in {"notify", "wait"} => Published \/ Taken \/ Used
    /\ blk_pc \in {"copy", "return"} => Used
    /\ blk_pc = "return" => buf = req_data
    /\ ReadsItsSector

LEMMA BlkTypeInit == BlkInit => BlkTypeOK
<1> SUFFICES ASSUME BlkInit PROVE BlkTypeOK
  OBVIOUS
<1>1. present \in BOOLEAN /\ vring \in BOOLEAN /\ notified \in BOOLEAN
  BY DEF BlkInit
<1>2. q_max \in Nat /\ q_size \in 0..VIRTQ_ENTRY_NUM
  BY QueueAssumption DEF BlkInit
<1>3. /\ avail_index \in Indexes /\ used_index \in Indexes
      /\ last_used_idx \in Indexes /\ seen \in Indexes
  BY IndexFacts DEF BlkInit
<1>4. /\ req \in [sector : Sectors, status : {VIRTIO_BLK_S_OK, VIRTIO_BLK_S_IOERR, Unanswered}]
      /\ ret \in {VIRTIO_BLK_S_OK, VIRTIO_BLK_S_IOERR, Unanswered}
  BY SectorsAssumption DEF BlkInit, VIRTIO_BLK_S_OK
<1>5. req_data \in Sectors \cup {Unread} /\ buf \in Sectors \cup {Unread}
  BY DEF BlkInit
<1>6. blk_pc \in BlkPcs /\ disk_pc \in {"idle", "reading", "written"}
  BY DEF BlkInit, BlkPcs
<1> QED
  BY <1>1, <1>2, <1>3, <1>4, <1>5, <1>6 DEF BlkTypeOK

LEMMA BlkTypeStep == BlkTypeOK /\ [BlkNext]_blkVars => BlkTypeOK'
<1> SUFFICES ASSUME BlkTypeOK, [BlkNext]_blkVars PROVE BlkTypeOK'
  OBVIOUS
<1> USE IndexFacts DEF BlkTypeOK, BlkStep, driver, disk, shared, machine
<1>1. CASE VirtioBlkInit
  <2>1. q_size' \in 0..VIRTQ_ENTRY_NUM
    BY <1>1, QueueAssumption DEF VirtioBlkInit
  <2> QED
    BY <1>1, <2>1 DEF VirtioBlkInit, BlkPcs
<1>2. ASSUME NEW s \in Sectors, Read("boot", s) \/ Read("ready", s) PROVE BlkTypeOK'
  BY <1>2 DEF Read, BlkPcs, Unanswered
<1>3. CASE VirtioBlkRegistered \/ Publish \/ Notify \/ WaitUsed
  BY <1>3 DEF VirtioBlkRegistered, Publish, Notify, WaitUsed, BlkPcs
<1>4. CASE Copy \/ Return
  BY <1>4 DEF Copy, Return, BlkPcs
<1>5. CASE DiskTakes
  BY <1>5 DEF DiskTakes
<1>6. CASE DiskWrites
  BY <1>6, SectorsAssumption DEF DiskWrites
<1>7. CASE DiskAnswers
  BY <1>7 DEF DiskAnswers
<1>8. CASE UNCHANGED blkVars
  BY <1>8 DEF blkVars
<1> QED
  BY <1>1, <1>2, <1>3, <1>4, <1>5, <1>6, <1>7, <1>8, SectorsAssumption
  DEF BlkNext, BlkSteps, DiskSteps

LEMMA BlkInvStep == BlkInv /\ [BlkNext]_blkVars => BlkInv'
<1> SUFFICES ASSUME BlkInv, [BlkNext]_blkVars PROVE BlkInv'
  OBVIOUS
<1>t. BlkTypeOK'
  BY BlkTypeStep DEF BlkInv
<1> USE IndexFacts
    DEF BlkInv, BlkTypeOK, BlkStep, driver, disk, shared, machine, ReadsItsSector,
        AtRest, Published, Taken, Used, Answered
<1>1. CASE VirtioBlkInit
  BY <1>1, <1>t DEF VirtioBlkInit
<1>2. CASE VirtioBlkRegistered
  BY <1>2, <1>t DEF VirtioBlkRegistered
<1>3. ASSUME NEW s \in Sectors, Read("boot", s) \/ Read("ready", s) PROVE BlkInv'
  BY <1>3, <1>t DEF Read
<1>4. CASE Publish
  BY <1>4, <1>t DEF Publish
<1>5. CASE Notify
  BY <1>5, <1>t DEF Notify
<1>6. CASE WaitUsed
  BY <1>6, <1>t DEF WaitUsed
<1>7. CASE Copy
  BY <1>7, <1>t DEF Copy
<1>8. CASE Return
  BY <1>8, <1>t DEF Return
<1>9. CASE DiskTakes
  BY <1>9, <1>t DEF DiskTakes, BlkPcs
<1>10. CASE DiskWrites
  BY <1>10, <1>t DEF DiskWrites, BlkPcs
<1>11. CASE DiskAnswers
  BY <1>11, <1>t DEF DiskAnswers, BlkPcs
<1>12. CASE UNCHANGED blkVars
  BY <1>12, <1>t DEF blkVars
<1> QED
  BY <1>1, <1>2, <1>3, <1>4, <1>5, <1>6, <1>7, <1>8, <1>9, <1>10, <1>11, <1>12,
     SectorsAssumption
  DEF BlkNext, BlkSteps, DiskSteps

LEMMA BlkInvAlways == Spec => []BlkInv
<1>1. Init => BlkInv
  BY BlkTypeInit DEF Init, BlkInit, BlkInv, AtRest, ReadsItsSector
<1> QED
  BY <1>1, BlkRefines, BlkInvStep, PTL DEF Spec

\* A read returns the sector it was asked for, or the device's error.
THEOREM ReadsItsSectorAlways == Spec => []ReadsItsSector
<1>1. BlkInv => ReadsItsSector
  BY DEF BlkInv
<1> QED
  BY <1>1, BlkInvAlways, PTL

\* The types of all three drivers.
THEOREM TypeCorrect == Spec => []TypeOK
<1>1. RegInv /\ BlkInv /\ ItsTypeOK => TypeOK
  BY DEF RegInv, BlkInv, TypeOK
<1> QED
  BY <1>1, RegInvAlways, BlkInvAlways, DevicesRunIts, ItsTypeCorrect, PTL

\* While drivers, disk and interrupts go on, each call of the ITS driver has
\* its own command carried out, once, before it returns.
THEOREM CarriedOutOnceAlways == Spec => CarriedOutOnce
BY DevicesRunIts, QueueImplementsPort, PTL

=============================================================================
