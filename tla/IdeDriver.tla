----------------------------- MODULE IdeDriver -----------------------------
(***************************************************************************)
(* The polled IDE driver of disk-driver/ide.c and the drive it talks to.   *)
(* The drive works on its own between any two accesses of the driver to    *)
(* its registers: the driver is a sequence of polls and register writes,   *)
(* the drive a second process that shares the registers.                   *)
(*                                                                         *)
(* Two programs call the driver: the file system, with any block numbers,  *)
(* and ide_check_disk, which writes the disk until that fails.             *)
(***************************************************************************)
EXTENDS Integers, Sequences, FiniteSets

CONSTANTS Size,        \* sectors of drive 0
          Limit,       \* 1<<28: idesetblock refuses block numbers from here on
          Data,        \* sector contents
          Ones, TestData,    \* 0xff and what ide_check_disk writes to single blocks
          MaxCalls, MaxFaults  \* bounds of the instance

Block == 0..Size-1
NULL == "NULL"

ASSUME DiskSizeAssumption == Size \in Nat /\ Size > 5 /\ Limit \in Nat /\ Size < Limit
ASSUME DataAssumption ==
  /\ Ones \in Data /\ NULL \notin Data
  /\ TestData \in [{1, 2, 3, 5} -> Data \ {Ones}]
ASSUME BoundsAssumption == MaxCalls \in Nat /\ MaxFaults \in Nat

VARIABLES
  present,     \* which of the two drives are attached
  device,      \* drive 0: what it does, its error bits, the command, its sector buffer
  registers,   \* the block number in LBAL, LBAM, LBAH and DEV
  blocks,      \* the sectors of drive 0
  havedisk,    \* havedisk0, havedisk1
  pc,          \* where the driver is
  call,        \* the call it executes
  times,       \* polls for data so far: only whether there were more than 4 matters
  b,           \* the caller's buffer
  res,         \* what the last call returned
  client,      \* who calls the driver
  test,        \* ide_check_disk: its stage, the loop counter and what it found
  calls, faults,                \* bounded
  before, trouble, refused      \* history: disk and buffer before the call, errors the
                                \* drive had in it, whether a number was ever refused

deviceVars == <<present, device, registers, blocks, faults, trouble>>
driverVars == <<havedisk, pc, call, times, b, res>>
clientVars == <<client, test, calls, before, refused>>
vars == <<deviceVars, driverVars, clientVars>>

NoCall == [op |-> "none", bloc |-> 0]
Resting(error) == [phase |-> "resting", error |-> error, op |-> "none", data |-> Ones]

Init ==
  /\ present \in [0..1 -> BOOLEAN]
  /\ device = Resting({})
  /\ registers = 0
  /\ blocks = [x \in Block |-> TestData[2]]
  /\ havedisk = [d \in 0..1 |-> FALSE]
  /\ pc = "ideinit" /\ call = NoCall /\ times = 0 /\ b = Ones /\ res = 0
  /\ client \in {"file_system", "check"}
  /\ test = [stage |-> "start", i |-> 0, proso_blocks |-> 0, failed |-> {}]
  /\ calls = 0 /\ faults = 0
  /\ before = [blocks |-> blocks, b |-> b] /\ trouble = "none" /\ refused = FALSE

-----------------------------------------------------------------------------
(* The drive.  External: an ATA drive as far as the driver can tell. *)

\* The bits of the status register of drive 0 (all zero if there is none).
Status == IF ~present[0] THEN {}
          ELSE CASE device.phase = "busy" -> {"BSY"}
                 [] device.phase = "request" -> {"DRDY", "DRQ"}
                 [] device.phase = "resting" -> {"DRDY"} \cup device.error

\* A command is accepted when it is written; it clears the error bits.
Commanded(op) == IF ~present[0] THEN device
                 ELSE [phase |-> "busy", error |-> {}, op |-> op, data |-> device.data]

Fault(error, when) ==
  /\ \/ faults < MaxFaults /\ faults' = faults + 1
     \/ registers \notin Block /\ error = "ERR" /\ when = "early" /\ UNCHANGED faults
  /\ device' = Resting({error})
  /\ trouble' = IF error = "DF" THEN "fault" ELSE when
  /\ UNCHANGED <<present, registers, blocks>>

\* A finished transfer may leave the number of the next sector in the registers.
Advances == registers' \in {registers, registers + 1}

DriveReset == /\ device.phase = "busy" /\ device.op = "reset"
              /\ device' = Resting({})
              /\ UNCHANGED <<present, registers, blocks, faults, trouble>>

\* The drive is ready for the data of a write, or has the data of a read.
DriveRequests ==
  /\ device.phase = "busy" /\ device.op \in {"read", "write"}
  /\ registers \in Block
  /\ device' = [device EXCEPT !.phase = "request",
                              !.data = IF device.op = "read" THEN blocks[registers] ELSE @]
  /\ UNCHANGED <<present, registers, blocks, faults, trouble>>

\* A block number past the end of the disk, or a defect.
DriveRefuses == /\ device.phase = "busy" /\ device.op \in {"read", "write"}
                /\ \E error \in {"ERR", "DF"}: Fault(error, "early")

DriveStores ==
  /\ device.phase = "busy" /\ device.op = "store"
  /\ \/ /\ blocks' = [blocks EXCEPT ![registers] = device.data]
        /\ device' = Resting({})
        /\ Advances
        /\ UNCHANGED <<present, faults, trouble>>
     \/ \E error \in {"ERR", "DF"}: Fault(error, "late")

Drive == (DriveReset \/ DriveRequests \/ DriveRefuses \/ DriveStores)
         /\ UNCHANGED <<driverVars, clientVars>>

-----------------------------------------------------------------------------
(* The driver *)

\* Mutant: a busy drive counts as ready.
idewait_AnyStatus(next) ==
  /\ Status # {"DRDY", "DRQ"}
  /\ pc' = next
  /\ UNCHANGED <<deviceVars, clientVars, havedisk, call, times, b, res>>

\* idewait(0), the only form in use: the polls that see the drive at work change
\* nothing, the one that finds it ready, or finds none, ends the loop.
idewait(next) ==
  /\ Status \cap {"BSY", "DRDY"} = {"DRDY"} \/ Status = {}
  /\ pc' = next
  /\ UNCHANGED <<deviceVars, clientVars, havedisk, call, times, b, res>>

ide_soft_reset ==
  /\ pc = "ideinit"
  /\ pc' = "reset_wait"
  /\ device' = Commanded("reset")
  /\ UNCHANGED <<present, registers, blocks, faults, trouble, clientVars,
                 havedisk, call, times, b, res>>

ResetWait == pc = "reset_wait" /\ idewait("probe")

\* The rest of ideinit: a drive that is there answers with a status that is not 0.
Probe ==
  /\ pc = "probe"
  /\ havedisk' = [d \in 0..1 |-> IF d = 0 THEN Status # {} ELSE present[1]]
  /\ res' = IF \E d \in 0..1: havedisk'[d] THEN 0 ELSE -1
  /\ pc' = "idle"
  /\ UNCHANGED <<deviceVars, clientVars, call, times, b>>

\* The call is entered with the caller's data; a NULL buffer is refused at once.
Enter(op, bloc, data) ==
  /\ pc = "idle"
  /\ call' = [op |-> op, bloc |-> bloc]
  /\ before' = [blocks |-> blocks, b |-> data]
  /\ trouble' = "none"
  /\ b' = data
  /\ IF data = NULL THEN pc' = "idle" /\ res' = -1 ELSE pc' = "ready" /\ res' = 0
  /\ times' = 0
  /\ UNCHANGED <<present, device, registers, blocks, faults, havedisk>>

Ready == pc = "ready" /\ idewait("set_block")

\* Mutant: the check of the block number is off by one bit, the number wraps.
idesetblock_Wraps(bloc) == bloc % Size

\* Mutant: no check at all.
idesetblock_Unchecked(bloc) == bloc

\* idesetblock: a number that is refused leaves the registers as they were.
idesetblock(bloc) == IF bloc >= Limit THEN registers ELSE bloc

SetBlockAndCommand ==
  /\ pc = "set_block"
  /\ registers' = idesetblock(call.bloc)
  /\ refused' = (refused \/ call.bloc >= Limit)
  /\ device' = Commanded(call.op)
  /\ pc' = "request"
  /\ UNCHANGED <<present, blocks, faults, trouble, havedisk, call, times, b, res,
                 client, test, calls, before>>

\* Mutant: the error bit is not looked at.
DataRequest_NoError ==
  /\ pc = "request"
  /\ Status \cap {"BSY", "DRQ"} = {"DRQ"}
  /\ pc' = "transfer"
  /\ UNCHANGED <<deviceVars, clientVars, havedisk, call, times, b, res>>

\* One turn of the loop that waits for the data request.
DataRequest ==
  /\ pc = "request"
  /\ \/ /\ Status \cap {"BSY", "DRQ"} = {"DRQ"}
        /\ pc' = "transfer"
        /\ UNCHANGED <<times, res>>
     \/ /\ Status \cap {"BSY", "DRQ"} # {"DRQ"}
        /\ times > 4 /\ "ERR" \in Status
        /\ pc' = "idle" /\ res' = -1
        /\ UNCHANGED times
     \/ /\ Status \cap {"BSY", "DRQ"} # {"DRQ"}
        /\ times <= 4
        /\ times' = times + 1
        /\ UNCHANGED <<pc, res>>
  /\ UNCHANGED <<deviceVars, clientVars, havedisk, call, b>>

\* outsl and insl
Transfer ==
  /\ pc = "transfer"
  /\ pc' = "finish"
  /\ \/ /\ call.op = "write"
        /\ device' = [device EXCEPT !.phase = "busy", !.op = "store", !.data = b]
        /\ UNCHANGED <<b, registers>>
     \/ /\ call.op = "read"
        /\ b' = device.data
        /\ device' = Resting({})
        /\ Advances
  /\ UNCHANGED <<present, blocks, faults, trouble, clientVars, havedisk, call, times, res>>

Finish == pc = "finish" /\ idewait("idle")

Driver == ide_soft_reset \/ ResetWait \/ Probe \/ Ready \/ SetBlockAndCommand
          \/ DataRequest \/ Transfer \/ Finish

-----------------------------------------------------------------------------
(* The programs *)

\* The file system: any block, in range, past the end of the disk or refused.
FileSystemCalls ==
  /\ client = "file_system" /\ calls < MaxCalls
  /\ calls' = calls + 1
  /\ \E op \in {"read", "write"}, bloc \in {0, 1, Size - 1, Size, Limit}, data \in Data \cup {NULL}:
       Enter(op, bloc, data)
  /\ UNCHANGED <<client, test, refused>>

\* After the two loops ide_check_disk writes and reads single blocks.
Script == << <<"write", 1>>, <<"write", 3>>, <<"write", 5>>, <<"read", 5>>, <<"read", 3>>,
             <<"read", 1>>, <<"write", 2>>, <<"read", 2>> >>

\* Mutant: the block that failed is counted.
LoopEnds_CountsFailure(stage) ==
  test' = [test EXCEPT !.stage = stage, !.i = 0, !.proso_blocks = test.i]

\* "proso_blocks = i-1" after the call of number i - 1 failed.
LoopEnds(stage) ==
  test' = [test EXCEPT !.stage = stage, !.i = 0,
                       !.proso_blocks = IF stage = "read_all" THEN test.i - 1 ELSE @]

\* What check_block finds of the block the last call of the script has read.
Checked == IF test.i > 0 /\ Script[test.i][1] = "read" /\ b # TestData[Script[test.i][2]]
           THEN test.failed \cup {test.i} ELSE test.failed

CheckCalls ==
  /\ client = "check" /\ pc = "idle"
  /\ UNCHANGED <<client, calls, refused>>
  /\ \/ /\ test.stage = "start"
        /\ \/ \E d \in 0..1: havedisk[d] /\ test' = [test EXCEPT !.stage = "write_all"]
           \/ (\A d \in 0..1: ~havedisk[d]) /\ test' = [test EXCEPT !.stage = "no_disk"]
        /\ res' = 0
        /\ UNCHANGED <<deviceVars, before, havedisk, pc, call, times, b>>
     \/ /\ test.stage \in {"write_all", "read_all"} /\ res >= 0
        /\ Enter(IF test.stage = "write_all" THEN "write" ELSE "read", test.i, Ones)
        /\ test' = [test EXCEPT !.i = @ + 1]
     \/ /\ test.stage = "write_all" /\ res < 0
        /\ LoopEnds("read_all")
        /\ res' = 0
        /\ UNCHANGED <<deviceVars, before, havedisk, pc, call, times, b>>
     \/ /\ test.stage = "read_all" /\ res < 0
        /\ LoopEnds("script")
        /\ UNCHANGED <<deviceVars, before, havedisk, pc, call, times, b, res>>
     \/ /\ test.stage = "script" /\ test.i < Len(Script)
        /\ LET line == Script[test.i + 1]
           IN  Enter(line[1], line[2], IF line[1] = "write" THEN TestData[line[2]] ELSE Ones)
        /\ test' = [test EXCEPT !.i = @ + 1, !.failed = Checked]
     \/ /\ test.stage = "script" /\ test.i = Len(Script)
        /\ test' = [test EXCEPT !.stage = "done", !.failed = Checked]
        /\ UNCHANGED <<deviceVars, before, driverVars>>

Next == Drive \/ Driver \/ FileSystemCalls \/ CheckCalls

\* The driver polls with interrupts off, nothing takes the CPU from it; a drive
\* that is attached answers every command, and ide_check_disk goes on.
Spec == Init /\ [][Next]_vars
FairSpec == Spec /\ WF_vars(Driver) /\ WF_vars(Drive) /\ WF_vars(CheckCalls)

-----------------------------------------------------------------------------
(* Properties *)

\* Types of all variables.
TypeOK ==
  /\ present \in [0..1 -> BOOLEAN] /\ havedisk \in [0..1 -> BOOLEAN]
  /\ device \in [phase: {"resting", "busy", "request"}, error: SUBSET {"ERR", "DF"},
                 op: {"none", "reset", "read", "write", "store"}, data: Data]
  /\ registers \in 0..Size
  /\ blocks \in [Block -> Data]
  /\ pc \in {"ideinit", "reset_wait", "probe", "idle", "ready", "set_block", "request",
             "transfer", "finish"}
  /\ call.op \in {"none", "read", "write"} /\ call.bloc \in Nat
  /\ times \in 0..5 /\ b \in Data \cup {NULL} /\ res \in {0, -1}
  /\ test.i \in Nat /\ test.proso_blocks \in 0..Size
  /\ test.failed \subseteq 1..Len(Script)
  /\ calls \in 0..MaxCalls /\ faults \in 0..MaxFaults

Returns == pc \notin {"idle", "probe"} /\ pc' = "idle"
Others(x) == [blocks EXCEPT ![x] = before.blocks[x]] = before.blocks

\* A call that returns 0 has moved its block, unless the drive failed after it had
\* taken the data; one that returns -1 has changed neither disk nor buffer; none
\* touches another block.  (idesetblock, the request loop, the transfer.)  After a
\* refused number nothing is promised: the drive works with old registers.
CallsAreAtomic ==
  [][Returns /\ ~refused =>
       IF res' = -1 THEN blocks' = before.blocks /\ b' = before.b
       ELSE /\ call.bloc \in Block /\ Others(call.bloc)
            /\ call.op = "read" => b' = blocks'[call.bloc] /\ blocks' = before.blocks
            /\ call.op = "write" /\ trouble' = "none" => blocks'[call.bloc] = b']_vars

\* No command is written while the drive works on another one or waits for data:
\* idewait before and after every transfer.
CommandsFindDriveResting ==
  [][pc = "set_block" /\ pc' = "request" /\ present[0] => device.phase = "resting"]_vars

\* With a drive, every call returns, also one the drive answers with an error; only
\* a device fault, which the request loop does not test, holds the machine.
CallsReturn ==
  (pc # "idle" /\ present[0]) ~> (pc = "idle" \/ "DF" \in device.error)

\* ide_check_disk finds the size of a disk without defects, and no bad block.
SelfTestMeasuresDisk ==
  test.stage = "done" /\ faults = 0 => test.proso_blocks = Size /\ test.failed = {}

\* Writing and then reading "until failure" ends, at the latest past the end of
\* the disk, and the whole self test with it.
SelfTestEnds ==
  (client = "check" /\ present[0]) ~> (test.stage = "done" \/ "DF" \in device.error)
=============================================================================
