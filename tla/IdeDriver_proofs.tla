-------------------------- MODULE IdeDriver_proofs --------------------------
(***************************************************************************)
(* Proofs about the IDE driver (module IdeDriver), for a disk of any size, *)
(* any data and any number of calls and faults.                            *)
(***************************************************************************)
EXTENDS IdeDriver, TLAPS

-----------------------------------------------------------------------------
(***************************************************************************)
(* The inductive invariant relates the two processes: what the drive may   *)
(* be doing at each point of the driver, and what has happened to the      *)
(* call's block by then.                                                   *)
(***************************************************************************)

Calling == {"ready", "set_block", "request", "transfer", "finish"}
Stages == {"start", "write_all", "read_all", "script", "done", "no_disk"}

Devices == [phase: {"resting", "busy", "request"}, error: SUBSET {"ERR", "DF"},
            op: {"none", "reset", "read", "write", "store"}, data: Data]

Tests == [stage: Stages, i: Nat, proso_blocks: 0..Size, failed: SUBSET (1..Len(Script))]

DeviceTypes ==
  /\ present \in [0..1 -> BOOLEAN]
  /\ device \in Devices
  /\ registers \in 0..Size /\ blocks \in [Block -> Data]
  /\ faults \in 0..MaxFaults /\ trouble \in {"none", "early", "late", "fault"}

DriverTypes ==
  /\ havedisk \in [0..1 -> BOOLEAN]
  /\ pc \in {"ideinit", "reset_wait", "probe", "idle"} \cup Calling
  /\ call \in [op: {"none", "read", "write"}, bloc: Nat]
  /\ call.bloc <= Size \/ call.bloc >= Limit
  /\ times \in 0..5 /\ b \in Data \cup {NULL} /\ res \in {0, -1}
  /\ pc \in Calling => call.op \in {"read", "write"} /\ b \in Data /\ res = 0

ClientTypes ==
  /\ client \in {"file_system", "check"} /\ refused \in BOOLEAN
  /\ test \in Tests
  /\ before \in [blocks: [Block -> Data], b: Data \cup {NULL}]
  /\ calls \in 0..MaxCalls

Types == DeviceTypes /\ DriverTypes /\ ClientTypes

\* The driver writes no command and moves no data but when the drive expects it.
Phases ==
  /\ ~present[0] => device.phase = "resting"
  /\ device.phase = "resting" => device.op = "none"
  /\ pc = "reset_wait" => \/ device.phase = "resting"
                          \/ device.phase = "busy" /\ device.op = "reset"
  /\ pc \in {"ideinit", "probe", "idle", "ready", "set_block"} => device.phase = "resting"
  /\ pc = "request" => \/ device.phase = "resting"
                       \/ device.phase \in {"busy", "request"} /\ device.op = call.op
  /\ pc = "transfer" => device.phase = "request" /\ device.op = call.op
  /\ pc = "finish" => \/ device.phase = "resting"
                      \/ device.phase = "busy" /\ device.op = "store" /\ call.op = "write"

\* Before the transfer nothing has changed; after it, only the block that was asked for.
Progress ==
  /\ pc \in {"ready", "set_block", "request", "transfer"} => blocks = before.blocks /\ b = before.b
  /\ pc \in {"ready", "set_block"} => trouble = "none"
  /\ pc \in {"request", "transfer"} =>
       /\ ~refused => registers = call.bloc
       /\ device.phase # "resting" => trouble = "none"
  /\ device.phase = "request" =>
       /\ registers \in Block
       /\ call.op = "read" => device.data = blocks[registers]
  /\ device.op = "store" => registers \in Block
  /\ pc = "finish" =>
       /\ device.phase = "busy" =>
            /\ ~refused => registers = call.bloc
            /\ device.data = b /\ blocks = before.blocks /\ trouble = "none"
       /\ ~refused =>
            /\ call.bloc \in Block /\ Others(call.bloc)
            /\ call.op = "read" => blocks = before.blocks /\ b = blocks[call.bloc]
            /\ call.op = "write" /\ device.phase = "resting" /\ trouble = "none"
                 => blocks[call.bloc] = b

\* Without faults of the drive, the only error is a number past the end.
Faultless ==
  faults = 0 =>
    /\ present[0] /\ pc = "request" /\ device.phase = "resting" => registers \notin Block
    /\ pc = "finish" => trouble = "none"

Writes(k) == Script[k][1] = "write"
IsWritten(disk, k) == Writes(k) => disk[Script[k][2]] = TestData[Script[k][2]]

\* What the self test knows: the loops have gone through all blocks up to the
\* current one, the script has written what its lines so far say.
LoopsMeasured ==
  test.stage \in {"write_all", "read_all"} =>
    /\ pc \in Calling \cup {"idle"} /\ test.failed = {}
    /\ test.i = 0 => pc = "idle" /\ res = 0
    /\ test.i > 0 =>
         /\ call.bloc = test.i - 1 /\ call.bloc <= Size
         /\ pc = "idle" => /\ res = 0 => call.bloc \in Block
                           /\ res = -1 /\ faults = 0 => call.bloc \notin Block

ScriptMeasured ==
  test.stage \in {"script", "done"} =>
    /\ pc \in Calling \cup {"idle"} /\ test.i <= Len(Script)
    /\ test.stage = "done" \/ test.i = 0 => pc = "idle"
    /\ test.i > 0 => /\ <<call.op, call.bloc>> = Script[test.i]
                     /\ Writes(test.i) => before.b = TestData[call.bloc] /\ b = before.b
    /\ faults = 0 =>
         /\ test.failed = {}
         /\ \A k \in 1..test.i: k < test.i => IsWritten(before.blocks, k)
         /\ pc = "idle" => /\ \A k \in 1..test.i: IsWritten(blocks, k)
                           /\ test.i > 0 /\ ~Writes(test.i) => b = TestData[call.bloc]

OtherMeasured ==
  /\ client = "file_system" => test.stage = "start"
  /\ client = "check" => ~refused
  /\ client = "check" /\ test.stage \in {"start", "no_disk"} => pc \notin Calling /\ test.i = 0
  /\ test.stage \in {"start", "no_disk"} => test.failed = {}
  /\ test.stage \in {"read_all", "script", "done"} /\ faults = 0 => test.proso_blocks = Size
Measured == LoopsMeasured /\ ScriptMeasured /\ OtherMeasured

IdeInv == Types /\ Phases /\ Progress /\ Faultless /\ Measured

-----------------------------------------------------------------------------
(* What the driver learns from the status register. *)

LEMMA StatusFacts ==
  ASSUME Types, Phases
  PROVE  /\ Status = {} <=> ~present[0]
         /\ "BSY" \in Status <=> present[0] /\ device.phase = "busy"
         /\ "DRQ" \in Status <=> present[0] /\ device.phase = "request"
         /\ "ERR" \in Status <=> present[0] /\ device.phase = "resting" /\ "ERR" \in device.error
  BY DEF Types, DeviceTypes, Devices, Phases, Status

\* A drive the driver has found ready, or not found at all, is at rest.
LEMMA ReadyRests ==
  ASSUME Types, Phases, Status \cap {"BSY", "DRDY"} = {"DRDY"} \/ Status = {},
         pc \in {"reset_wait", "ready", "finish"}
  PROVE  device.phase = "resting"
<1>1. "BSY" \notin Status
  OBVIOUS
<1> QED
  BY <1>1, StatusFacts DEF Types, DriverTypes, DeviceTypes, Devices, Phases, Calling

\* A data request is one of the drive for the call that waits for it.
LEMMA RequestFound ==
  ASSUME Types, Phases, Status \cap {"BSY", "DRQ"} = {"DRQ"}
  PROVE  present[0] /\ device.phase = "request"
  BY StatusFacts

-----------------------------------------------------------------------------
(* The script of ide_check_disk *)

LEMMA ScriptFacts ==
  /\ Len(Script) = 8
  /\ \A k \in 1..8: /\ Script[k] = <<Script[k][1], Script[k][2]>>
                    /\ Script[k][1] \in {"read", "write"} /\ Script[k][2] \in {1, 2, 3, 5}
  /\ \A k \in 1..8: ~Writes(k) =>
       \E j \in 1..8: j < k /\ Writes(j) /\ Script[j][2] = Script[k][2]
  /\ \A j \in 1..8, k \in 1..8: Writes(j) /\ Writes(k) /\ j # k => Script[j][2] # Script[k][2]
<1>1. Len(Script) = 8
  BY DEF Script
<1>2. \A k \in 1..8: k = 1 \/ k = 2 \/ k = 3 \/ k = 4 \/ k = 5 \/ k = 6 \/ k = 7 \/ k = 8
  OBVIOUS
<1>3. /\ Script[1] = <<"write", 1>> /\ Script[2] = <<"write", 3>>
      /\ Script[3] = <<"write", 5>> /\ Script[4] = <<"read", 5>>
      /\ Script[5] = <<"read", 3>> /\ Script[6] = <<"read", 1>>
      /\ Script[7] = <<"write", 2>> /\ Script[8] = <<"read", 2>>
  BY DEF Script
<1>4. \A k \in 1..8: /\ Script[k] = <<Script[k][1], Script[k][2]>>
                     /\ Script[k][1] \in {"read", "write"} /\ Script[k][2] \in {1, 2, 3, 5}
  BY <1>2, <1>3
<1>5. \A k \in 1..8: Writes(k) <=> k \in {1, 2, 3, 7}
  BY <1>2, <1>3 DEF Writes
<1>6. \A k \in 1..8: ~Writes(k) =>
       \E j \in 1..8: j < k /\ Writes(j) /\ Script[j][2] = Script[k][2]
  <2>1. ASSUME NEW k \in 1..8, k \in {4, 5, 6, 8}
        PROVE  \E j \in {1, 2, 3, 7}: j < k /\ Script[j][2] = Script[k][2]
    BY <1>3, <2>1
  <2> QED
    BY <1>2, <1>5, <2>1
<1>7. \A j \in 1..8, k \in 1..8: Writes(j) /\ Writes(k) /\ j # k => Script[j][2] # Script[k][2]
  BY <1>3, <1>5
<1> QED
  BY <1>1, <1>4, <1>6, <1>7

-----------------------------------------------------------------------------
(* The steps, one lemma for each part of the invariant *)

USE DEF Block

\* The steps of ide_check_disk: the next call of a loop, the next line of the script,
\* and what happens between the calls.
LoopCalls ==
  /\ test.stage \in {"write_all", "read_all"} /\ res = 0 /\ test.i \in 0..Size
  /\ Enter(IF test.stage = "write_all" THEN "write" ELSE "read", test.i, Ones)
  /\ test' = [test EXCEPT !.i = @ + 1]

ScriptCalls ==
  /\ test.stage = "script" /\ test.i \in 0..7
  /\ \E op \in {"write", "read"}, bloc \in {1, 2, 3, 5}:
       /\ Script[test.i + 1] = <<op, bloc>>
       /\ Enter(op, bloc, IF op = "write" THEN TestData[bloc] ELSE Ones)
  /\ test' = [test EXCEPT !.i = @ + 1, !.failed = Checked]

Between ==
  /\ UNCHANGED <<deviceVars, before, havedisk, pc, call, times, b>>
  /\ \/ /\ test.stage = "start" /\ res' = 0
        /\ \E stage \in {"write_all", "no_disk"}: test' = [test EXCEPT !.stage = stage]
     \/ /\ test.stage = "write_all" /\ res = -1 /\ res' = 0
        /\ test' = [test EXCEPT !.stage = "read_all", !.i = 0, !.proso_blocks = test.i - 1]
     \/ /\ test.stage = "read_all" /\ res = -1 /\ res' = res
        /\ test' = [test EXCEPT !.stage = "script", !.i = 0]
     \/ /\ test.stage = "script" /\ test.i = 8 /\ res' = res
        /\ test' = [test EXCEPT !.stage = "done", !.failed = Checked]

LEMMA CheckCases ==
  ASSUME Types, Measured, CheckCalls
  PROVE  /\ client = "check" /\ pc = "idle" /\ UNCHANGED <<client, calls, refused>>
         /\ LoopCalls \/ ScriptCalls \/ Between
<1>1. client = "check" /\ pc = "idle" /\ UNCHANGED <<client, calls, refused>> /\ res \in {0, -1}
  BY DEF CheckCalls, Types, DriverTypes
<1>2. CASE test.stage = "start"
  BY <1>2 DEF CheckCalls, Between
<1>3. CASE test.stage \in {"write_all", "read_all"} /\ res = 0
  <2>1. test.i \in 0..Size
    BY <1>1, <1>3, DiskSizeAssumption DEF Types, ClientTypes, Tests, DriverTypes, Measured, LoopsMeasured
  <2> QED
    BY <1>3, <2>1 DEF CheckCalls, LoopCalls
<1>4. CASE test.stage = "write_all" /\ res = -1
  BY <1>4 DEF CheckCalls, Between, LoopEnds
<1>5. CASE test.stage = "read_all" /\ res = -1
  <2>1. LoopEnds("script")
    BY <1>5 DEF CheckCalls
  <2>2. test' = [test EXCEPT !.stage = "script", !.i = 0, !.proso_blocks = test.proso_blocks]
    BY <2>1 DEF LoopEnds
  <2>3. test' = [test EXCEPT !.stage = "script", !.i = 0]
    BY <2>2 DEF Types, ClientTypes, Tests
  <2> QED
    BY <1>5, <2>3 DEF CheckCalls, Between
<1>6. CASE test.stage = "script"
  <2>1. test.i \in 0..8
    BY <1>6, ScriptFacts DEF Types, ClientTypes, Tests, Measured, ScriptMeasured
  <2>2. CASE test.i < 8
    <3>1. test.i + 1 \in 1..8 /\ test.i \in 0..7
      BY <2>1, <2>2
    <3>2. PICK op \in {"write", "read"}, bloc \in {1, 2, 3, 5}: Script[test.i + 1] = <<op, bloc>>
      BY <3>1, ScriptFacts
    <3>3. Enter(op, bloc, IF op = "write" THEN TestData[bloc] ELSE Ones)
      BY <1>6, <2>2, <3>2, ScriptFacts DEF CheckCalls
    <3>4. test' = [test EXCEPT !.i = @ + 1, !.failed = Checked]
      BY <1>6, <2>2, ScriptFacts DEF CheckCalls
    <3>5. \E x \in {"write", "read"}, y \in {1, 2, 3, 5}:
            /\ Script[test.i + 1] = <<x, y>>
            /\ Enter(x, y, IF x = "write" THEN TestData[y] ELSE Ones)
      BY <3>2, <3>3, Zenon
    <3> QED
      BY <1>1, <1>6, <3>1, <3>4, <3>5, Zenon DEF ScriptCalls
  <2>3. CASE test.i = 8
    BY <1>6, <2>3, ScriptFacts DEF CheckCalls, Between, driverVars
  <2> QED
    BY <2>1, <2>2, <2>3
<1> QED
  BY <1>1, <1>2, <1>3, <1>4, <1>5, <1>6 DEF CheckCalls

LEMMA EnterTypes ==
  ASSUME Types, NEW op \in {"read", "write"}, NEW bloc \in Nat, NEW data \in Data \cup {NULL},
         bloc <= Size \/ bloc >= Limit, Enter(op, bloc, data)
  PROVE  /\ DeviceTypes' /\ DriverTypes'
         /\ before' \in [blocks: [Block -> Data], b: Data \cup {NULL}]
<1>1. DeviceTypes'
  BY DEF Types, DeviceTypes, Enter
<1>2. call' \in [op: {"none", "read", "write"}, bloc: Nat] /\ call'.op = op /\ call'.bloc = bloc
  BY DEF Enter
<1>3. DriverTypes'
  BY <1>2 DEF Types, DriverTypes, Enter, Calling
<1>4. before' \in [blocks: [Block -> Data], b: Data \cup {NULL}]
  BY DEF Types, DeviceTypes, Enter
<1> QED
  BY <1>1, <1>3, <1>4

LEMMA DriveTypes ==
  ASSUME Types, Progress, Drive
  PROVE  Types'
<1>1. DriverTypes' /\ ClientTypes'
  BY DEF Drive, Types, DriverTypes, ClientTypes, driverVars, clientVars
<1>2. Resting({}) \in Devices
  BY DataAssumption DEF Resting, Devices
<1>3. ASSUME NEW error \in {"ERR", "DF"}, NEW when \in {"early", "late"}, Fault(error, when)
      PROVE  DeviceTypes'
  <2>1. Resting({error}) \in Devices
    BY DataAssumption DEF Resting, Devices
  <2>2. faults' \in 0..MaxFaults
    BY <1>3, BoundsAssumption DEF Fault, Types, DeviceTypes
  <2>3. trouble' \in {"none", "early", "late", "fault"}
    BY <1>3 DEF Fault
  <2> QED
    BY <1>3, <2>1, <2>2, <2>3 DEF Fault, Types, DeviceTypes
<1>4. CASE DriveReset
  BY <1>1, <1>2, <1>4 DEF DriveReset, Types, DeviceTypes
<1>5. CASE DriveRequests
  <2>1. blocks[registers] \in Data
    BY <1>5 DEF DriveRequests, Types, DeviceTypes
  <2>2. device' \in Devices
    BY <1>5, <2>1 DEF DriveRequests, Types, DeviceTypes, Devices
  <2> QED
    BY <1>1, <1>5, <2>2 DEF DriveRequests, Types, DeviceTypes
<1>6. CASE DriveRefuses
  BY <1>1, <1>3, <1>6 DEF DriveRefuses, Types
<1>7. CASE DriveStores
  <2>1. registers \in Block
    BY <1>7 DEF DriveStores, Progress
  <2>2. CASE /\ blocks' = [blocks EXCEPT ![registers] = device.data]
             /\ device' = Resting({}) /\ Advances /\ UNCHANGED <<present, faults, trouble>>
    <3>1. registers' \in 0..Size
      BY <2>1, <2>2, DiskSizeAssumption DEF Advances
    <3>2. blocks' \in [Block -> Data]
      BY <2>1, <2>2 DEF Types, DeviceTypes, Devices
    <3> QED
      BY <1>1, <1>2, <2>2, <3>1, <3>2 DEF Types, DeviceTypes
  <2> QED
    BY <1>1, <1>3, <1>7, <2>2 DEF DriveStores, Types
<1> QED
  BY <1>1, <1>4, <1>5, <1>6, <1>7 DEF Drive, Types

LEMMA DriverStepTypes ==
  ASSUME Types, Phases, Progress, Driver
  PROVE  Types'
<1>0. USE DEF Types, Calling
<1>1. CASE ide_soft_reset
  <2>1. device' \in Devices
    BY <1>1 DEF ide_soft_reset, Commanded, DeviceTypes, Devices
  <2> QED
    BY <1>1, <2>1 DEF ide_soft_reset, DeviceTypes, DriverTypes, ClientTypes, clientVars
<1>2. ASSUME NEW next \in {"probe", "set_block", "idle"}, idewait(next),
             next = "set_block" => pc \in Calling
      PROVE  Types'
  BY <1>2 DEF idewait, DeviceTypes, DriverTypes, ClientTypes, deviceVars, clientVars
<1>3. CASE ResetWait \/ Ready \/ Finish
  BY <1>2, <1>3 DEF ResetWait, Ready, Finish
<1>4. CASE Probe
  <2>1. havedisk' \in [0..1 -> BOOLEAN]
    BY <1>4 DEF Probe, DeviceTypes
  <2> QED
    BY <1>4, <2>1 DEF Probe, DeviceTypes, DriverTypes, ClientTypes, deviceVars, clientVars
<1>5. CASE SetBlockAndCommand
  <2>1. registers' \in 0..Size
    BY <1>5, DiskSizeAssumption DEF SetBlockAndCommand, idesetblock, DeviceTypes, DriverTypes
  <2>2. device' \in Devices
    BY <1>5 DEF SetBlockAndCommand, Commanded, DeviceTypes, Devices, DriverTypes
  <2>3. DeviceTypes'
    BY <1>5, <2>1, <2>2 DEF SetBlockAndCommand, DeviceTypes
  <2>4. DriverTypes'
    BY <1>5 DEF SetBlockAndCommand, DriverTypes
  <2>5. ClientTypes'
    BY <1>5 DEF SetBlockAndCommand, ClientTypes
  <2> QED
    BY <2>3, <2>4, <2>5
<1>6. CASE DataRequest
  <2>1. DriverTypes'
    BY <1>6 DEF DataRequest, DriverTypes
  <2> QED
    BY <1>6, <2>1 DEF DataRequest, DeviceTypes, ClientTypes, deviceVars, clientVars
<1>7. CASE Transfer
  <2>1. device.phase = "request" /\ registers \in Block
    BY <1>7 DEF Transfer, Phases, Progress
  <2>2. registers' \in 0..Size
    BY <1>7, <2>1, DiskSizeAssumption DEF Transfer, Advances
  <2>3. b \in Data /\ device.data \in Data
    BY <1>7 DEF Transfer, DeviceTypes, Devices, DriverTypes
  <2>4. device' \in Devices
    <3>1. Resting({}) \in Devices
      BY DataAssumption DEF Resting, Devices
    <3>2. [device EXCEPT !.phase = "busy", !.op = "store", !.data = b] \in Devices
      BY <2>3 DEF DeviceTypes, Devices
    <3> QED
      BY <1>7, <3>1, <3>2 DEF Transfer
  <2>5. DeviceTypes'
    BY <1>7, <2>2, <2>4 DEF Transfer, DeviceTypes
  <2>6. DriverTypes'
    BY <1>7, <2>3 DEF Transfer, DriverTypes
  <2> QED
    BY <1>7, <2>5, <2>6 DEF Transfer, ClientTypes, clientVars
<1> QED
  BY <1>1, <1>3, <1>4, <1>5, <1>6, <1>7 DEF Driver

LEMMA ClientStepTypes ==
  ASSUME Types, Measured, FileSystemCalls \/ CheckCalls
  PROVE  Types'
<1>1. CASE FileSystemCalls
  <2>1. PICK op \in {"read", "write"}, bloc \in {0, 1, Size - 1, Size, Limit},
             data \in Data \cup {NULL}: Enter(op, bloc, data)
    BY <1>1 DEF FileSystemCalls
  <2>2. bloc \in Nat /\ (bloc <= Size \/ bloc >= Limit)
    BY DiskSizeAssumption
  <2>3. DeviceTypes' /\ DriverTypes' /\ before' \in [blocks: [Block -> Data], b: Data \cup {NULL}]
    BY <2>1, <2>2, EnterTypes
  <2>4. ClientTypes'
    BY <1>1, <2>3, BoundsAssumption DEF FileSystemCalls, Types, ClientTypes
  <2> QED
    BY <2>3, <2>4 DEF Types
<1>2. CASE CheckCalls
  <2>0. Ones \in Data /\ \A x \in {1, 2, 3, 5}: TestData[x] \in Data
    BY DataAssumption
  <2>1. test.i \in 0..8 => Checked \subseteq 1..Len(Script)
    BY ScriptFacts DEF Checked, Types, ClientTypes, Tests
  <2>2. CASE LoopCalls
    <3>1. DeviceTypes' /\ DriverTypes' /\ before' \in [blocks: [Block -> Data], b: Data \cup {NULL}]
      BY <2>0, <2>2, EnterTypes, DiskSizeAssumption DEF LoopCalls
    <3>2. test' \in Tests
      BY <2>2 DEF LoopCalls, Types, ClientTypes, Tests
    <3> QED
      BY <1>2, <3>1, <3>2, CheckCases DEF Types, ClientTypes
  <2>3. CASE ScriptCalls
    <3>1. PICK op \in {"write", "read"}, bloc \in {1, 2, 3, 5}:
            Enter(op, bloc, IF op = "write" THEN TestData[bloc] ELSE Ones)
      BY <2>3 DEF ScriptCalls
    <3>2. DeviceTypes' /\ DriverTypes' /\ before' \in [blocks: [Block -> Data], b: Data \cup {NULL}]
      BY <2>0, <3>1, EnterTypes, DiskSizeAssumption
    <3>3. test' \in Tests
      <4>1. Checked \in SUBSET (1..Len(Script))
        BY <2>1, <2>3 DEF ScriptCalls
      <4>2. test' = [test EXCEPT !.i = @ + 1, !.failed = Checked]
        BY <2>3 DEF ScriptCalls
      <4>3. test \in Tests
        BY DEF Types, ClientTypes
      <4>4. ASSUME NEW i \in Nat PROVE [test EXCEPT !.i = i, !.failed = Checked] \in Tests
        BY <4>1, <4>3 DEF Tests
      <4>5. test.i + 1 \in Nat
        BY <4>3 DEF Tests
      <4> QED
        BY <4>2, <4>4, <4>5
    <3> QED
      BY <1>2, <3>2, <3>3, CheckCases DEF Types, ClientTypes
  <2>4. CASE Between
    <3>1. pc = "idle" /\ res' \in {0, -1}
      BY <1>2, <2>4, CheckCases DEF Between, Types, DriverTypes
    <3>2. DeviceTypes' /\ DriverTypes' /\ before' = before
      BY <2>4, <3>1 DEF Between, Types, DeviceTypes, DriverTypes, deviceVars, Calling
    <3>3. test.stage = "write_all" /\ res = -1 => test.i - 1 \in 0..Size
      BY <3>1, DiskSizeAssumption DEF Types, ClientTypes, Tests, DriverTypes, Measured, LoopsMeasured
    <3>4. test' \in Tests
      <4>1. test.i = 8 => Checked \in SUBSET (1..Len(Script))
        BY <2>1
      <4>2. test \in Tests
        BY DEF Types, ClientTypes
      <4>3. ASSUME NEW stage \in Stages
            PROVE  /\ [test EXCEPT !.stage = stage] \in Tests
                   /\ [test EXCEPT !.stage = stage, !.i = 0] \in Tests
        BY <4>2 DEF Tests
      <4>4. test.stage = "write_all" /\ res = -1
              => [test EXCEPT !.stage = "read_all", !.i = 0, !.proso_blocks = test.i - 1] \in Tests
        BY <3>3, <4>2 DEF Tests, Stages
      <4>5. test.i = 8 => [test EXCEPT !.stage = "done", !.failed = Checked] \in Tests
        BY <4>1, <4>2 DEF Tests, Stages
      <4> QED
        BY <2>4, <4>3, <4>4, <4>5 DEF Between, Stages
    <3> QED
      BY <1>2, <3>2, <3>4, CheckCases DEF Types, ClientTypes
  <2> QED
    BY <1>2, <2>2, <2>3, <2>4, CheckCases
<1> QED
  BY <1>1, <1>2

LEMMA TypesStep == Types /\ Phases /\ Progress /\ Measured /\ [Next]_vars => Types'
<1>1. UNCHANGED vars /\ Types => Types'
  BY DEF Types, DeviceTypes, DriverTypes, ClientTypes, vars, deviceVars, driverVars, clientVars
<1> QED
  BY <1>1, DriveTypes, DriverStepTypes, ClientStepTypes DEF Next

\* A program's step does not touch the drive: it finds the driver idle and leaves it
\* idle or at the start of a call.
LEMMA ClientLeavesDrive ==
  ASSUME Types, Measured, FileSystemCalls \/ CheckCalls
  PROVE  /\ UNCHANGED <<present, device, registers, blocks, faults>>
         /\ pc = "idle" /\ pc' \in {"idle", "ready"}
<1>1. ASSUME NEW op, NEW bloc, NEW data, Enter(op, bloc, data)
      PROVE  /\ UNCHANGED <<present, device, registers, blocks, faults>>
             /\ pc = "idle" /\ pc' \in {"idle", "ready"}
  BY <1>1 DEF Enter
<1>2. CASE FileSystemCalls
  BY <1>1, <1>2 DEF FileSystemCalls
<1>3. CASE CheckCalls
  BY <1>1, <1>3, CheckCases DEF LoopCalls, ScriptCalls, Between, deviceVars
<1> QED
  BY <1>2, <1>3

LEMMA PhasesStep == Types /\ Phases /\ Measured /\ [Next]_vars => Phases'
<1> SUFFICES ASSUME Types, Phases, Measured, [Next]_vars PROVE Phases'
  OBVIOUS
<1>0. /\ device.phase \in {"resting", "busy", "request"}
      /\ \A error: Resting(error).phase = "resting" /\ Resting(error).op = "none"
      /\ DOMAIN device = {"phase", "error", "op", "data"}
  BY DEF Types, DeviceTypes, Devices, Resting
<1>1. CASE Drive
  <2>1. UNCHANGED <<pc, call>> /\ present' = present
    BY <1>1 DEF Drive, driverVars, DriveReset, DriveRequests, DriveRefuses, DriveStores, Fault
  <2>2. CASE device'.phase = "resting" /\ device'.op = "none"
    <3>1. device.phase # "resting"
      BY <1>0, <1>1 DEF Drive, DriveReset, DriveRequests, DriveRefuses, DriveStores
    <3>2. pc # "transfer"
      BY <1>1, <3>1 DEF Phases, Drive, DriveReset, DriveRequests, DriveRefuses, DriveStores
    <3> QED
      BY <2>1, <2>2, <3>1, <3>2 DEF Phases
  <2>3. CASE DriveRequests
    <3>1. device'.phase = "request" /\ device'.op = device.op
      BY <2>3 DEF DriveRequests, Types, DeviceTypes, Devices
    <3>2. device.phase = "busy" /\ device.op \in {"read", "write"}
      BY <2>3 DEF DriveRequests
    <3> QED
      BY <2>1, <3>1, <3>2 DEF Phases
  <2> QED
    BY <1>0, <1>1, <2>2, <2>3 DEF Drive, DriveReset, DriveRefuses, DriveStores, Fault
<1>2. CASE ide_soft_reset
  BY <1>2 DEF ide_soft_reset, Commanded, Phases
<1>3. CASE ResetWait \/ Ready \/ Finish
  <2>1. device.phase = "resting" /\ UNCHANGED <<present, device, call>>
        /\ pc' \in {"probe", "set_block", "idle"}
    BY <1>3, ReadyRests DEF ResetWait, Ready, Finish, idewait, deviceVars
  <2> QED
    BY <2>1 DEF Phases
<1>4. CASE Probe
  BY <1>4 DEF Probe, Phases, deviceVars
<1>5. CASE SetBlockAndCommand
  BY <1>5 DEF SetBlockAndCommand, Commanded, Phases, Types, DriverTypes, Calling
<1>6. CASE DataRequest
  <2>1. pc = "request" /\ UNCHANGED <<present, device, call>>
        /\ pc' \in {"request", "transfer", "idle"}
    BY <1>6 DEF DataRequest, deviceVars
  <2>2. pc' = "transfer" => device.phase = "request"
    BY <1>6, RequestFound DEF DataRequest
  <2>3. pc' = "idle" => device.phase = "resting"
    <3>1. pc' = "idle" => "ERR" \in Status
      BY <1>6 DEF DataRequest
    <3> QED
      BY <3>1, StatusFacts
  <2> QED
    BY <2>1, <2>2, <2>3 DEF Phases
<1>7. CASE Transfer
  <2>1. present[0]
    BY <1>7 DEF Transfer, Phases
  <2>2. CASE call.op = "write"
    BY <1>7, <2>1, <2>2 DEF Transfer, Phases, Types, DeviceTypes, Devices
  <2>3. CASE call.op = "read"
    BY <1>0, <1>7, <2>1, <2>3 DEF Transfer, Phases
  <2> QED
    BY <1>7, <2>2, <2>3 DEF Transfer
<1>8. CASE FileSystemCalls \/ CheckCalls
  BY <1>8, ClientLeavesDrive DEF Phases
<1>9. CASE UNCHANGED vars
  BY <1>9 DEF Phases, vars, deviceVars, driverVars
<1> QED
  BY <1>1, <1>2, <1>3, <1>4, <1>5, <1>6, <1>7, <1>8, <1>9 DEF Next, Driver

\* The drive waits for data only in a call's transfer.
LEMMA RequestInCall ==
  ASSUME Types, Phases, device.phase = "request"
  PROVE  pc \in {"request", "transfer"} /\ device.op = call.op /\ call.op \in {"read", "write"}
  BY DEF Types, DeviceTypes, Devices, DriverTypes, Calling, Phases

\* A store goes on only after the transfer of a write.
LEMMA StoreInCall ==
  ASSUME Types, Phases, device.op = "store"
  PROVE  pc = "finish" /\ device.phase = "busy" /\ call.op = "write"
  BY DEF Types, DeviceTypes, Devices, DriverTypes, Calling, Phases

\* A transfer command goes on only in the loop that waits for its data request.
LEMMA CommandInCall ==
  ASSUME Types, Phases, device.op \in {"read", "write"}
  PROVE  pc \in {"request", "transfer"} /\ device.op = call.op /\ device.phase # "resting"
  BY DEF Types, DeviceTypes, Devices, DriverTypes, Calling, Phases

LEMMA DriveProgress ==
  ASSUME Types, Phases, Progress, Drive
  PROVE  Progress'
<1>0. /\ UNCHANGED <<pc, call, b, refused, before>>
      /\ \A error: Resting(error).phase = "resting" /\ Resting(error).op = "none"
  BY DEF Drive, driverVars, clientVars, Resting
<1>1. CASE DriveReset
  <2>1. /\ device'.phase = "resting" /\ device'.op = "none" /\ UNCHANGED <<registers, blocks, trouble>>
        /\ device.phase = "busy" /\ device.op = "reset"
    BY <1>0, <1>1 DEF DriveReset
  <2>2. pc \notin {"request", "finish"}
    BY <2>1 DEF Types, DriverTypes, Calling, Phases
  <2> QED
    BY <1>0, <2>1, <2>2 DEF Progress, Others
<1>2. CASE DriveRequests
  <2>1. /\ device.phase = "busy" /\ device.op \in {"read", "write"} /\ registers \in Block
        /\ device'.phase = "request" /\ device'.op = device.op
        /\ device.op = "read" => device'.data = blocks[registers]
        /\ UNCHANGED <<registers, blocks, trouble>>
    BY <1>2 DEF DriveRequests, Types, DeviceTypes, Devices
  <2>2. pc = "request" /\ device.op = call.op
    BY <2>1, CommandInCall DEF Phases
  <2> QED
    BY <1>0, <2>1, <2>2 DEF Progress
<1>3. CASE DriveRefuses
  <2>1. /\ device.phase = "busy" /\ device.op \in {"read", "write"}
        /\ device'.phase = "resting" /\ device'.op = "none"
        /\ UNCHANGED <<registers, blocks>>
    BY <1>0, <1>3 DEF DriveRefuses, Fault
  <2>2. pc = "request"
    BY <2>1, CommandInCall DEF Phases
  <2> QED
    BY <1>0, <2>1, <2>2 DEF Progress
<1>4. CASE DriveStores
  <2>1. /\ device.phase = "busy" /\ device.op = "store" /\ pc = "finish" /\ call.op = "write"
        /\ device'.phase = "resting" /\ device'.op = "none" /\ registers \in Block
    BY <1>0, <1>4, StoreInCall DEF DriveStores, Fault, Progress
  <2>2. CASE \E error \in {"ERR", "DF"}: Fault(error, "late")
    <3>1. blocks' = blocks /\ trouble' # "none"
      BY <2>2 DEF Fault
    <3> QED
      BY <1>0, <2>1, <3>1 DEF Progress, Others
  <2>3. CASE blocks' = [blocks EXCEPT ![registers] = device.data] /\ UNCHANGED trouble
    <3>1. CASE refused
      BY <1>0, <2>1, <3>1 DEF Progress
    <3>2. CASE ~refused
      <4>1. registers = call.bloc /\ device.data = b /\ blocks = before.blocks
        BY <2>1, <3>2 DEF Progress
      <4>2. blocks \in [Block -> Data] /\ device.data \in Data
        BY DEF Types, DeviceTypes, Devices
      <4>3. blocks'[call.bloc] = b' /\ Others(call.bloc)'
        BY <1>0, <2>1, <2>3, <4>1, <4>2 DEF Others
      <4> QED
        BY <1>0, <2>1, <3>2, <4>1, <4>3 DEF Progress
    <3> QED
      BY <3>1, <3>2 DEF Types, ClientTypes
  <2> QED
    BY <1>4, <2>2, <2>3 DEF DriveStores
<1> QED
  BY <1>1, <1>2, <1>3, <1>4 DEF Drive

LEMMA ProgressStep == Types /\ Phases /\ Progress /\ Measured /\ [Next]_vars => Progress'
<1> SUFFICES ASSUME Types, Phases, Progress, Measured, [Next]_vars PROVE Progress'
  OBVIOUS
<1>0. \A error: Resting(error).phase = "resting" /\ Resting(error).op = "none"
  BY DEF Resting
<1>2. CASE ide_soft_reset
  <2>1. pc = "ideinit" /\ pc' = "reset_wait" /\ device' = Commanded("reset")
        /\ UNCHANGED <<registers, blocks, trouble, b, call, refused, before>>
    BY <1>2 DEF ide_soft_reset, clientVars
  <2>2. device'.phase \in {"busy", "resting"} /\ device'.op # "store"
    BY <2>1 DEF Commanded, Phases
  <2> QED
    BY <2>1, <2>2 DEF Progress
<1>3. CASE ResetWait \/ Ready \/ Finish
  <2>1. /\ device.phase = "resting"
        /\ UNCHANGED <<device, registers, blocks, trouble, b, call, refused, before>>
        /\ pc' \in {"probe", "idle"} \/ (pc = "ready" /\ pc' = "set_block")
    <3>1. /\ pc \in {"reset_wait", "ready", "finish"}
          /\ Status \cap {"BSY", "DRDY"} = {"DRDY"} \/ Status = {}
      BY <1>3 DEF ResetWait, Ready, Finish, idewait
    <3>2. device.phase = "resting"
      BY <3>1, ReadyRests
    <3>3. UNCHANGED <<device, registers, blocks, trouble, b, call, refused, before>>
      BY <1>3 DEF ResetWait, Ready, Finish, idewait, deviceVars, clientVars
    <3>4. pc' \in {"probe", "idle"} \/ (pc = "ready" /\ pc' = "set_block")
      BY <1>3 DEF ResetWait, Ready, Finish, idewait
    <3> QED
      BY <3>2, <3>3, <3>4
  <2> QED
    BY <2>1 DEF Progress
<1>4. CASE Probe
  BY <1>4 DEF Probe, Progress, deviceVars, clientVars
<1>5. CASE SetBlockAndCommand
  <2>1. /\ pc = "set_block" /\ pc' = "request" /\ device.phase = "resting"
        /\ UNCHANGED <<blocks, trouble, b, call, before>>
        /\ ~refused' => ~refused /\ registers' = call.bloc
    BY <1>5 DEF SetBlockAndCommand, idesetblock, Phases, Types, DriverTypes
  <2>2. device'.phase \in {"busy", "resting"} /\ device'.op # "store"
    BY <1>5 DEF SetBlockAndCommand, Commanded, Phases, Types, DriverTypes, Calling
  <2> QED
    BY <2>1, <2>2 DEF Progress
<1>6. CASE DataRequest
  BY <1>6 DEF DataRequest, Progress, deviceVars, clientVars
<1>7. CASE Transfer
  <2>1. /\ pc = "transfer" /\ pc' = "finish" /\ device.phase = "request" /\ registers \in Block
        /\ UNCHANGED <<blocks, trouble, call, refused, before>>
        /\ blocks = before.blocks /\ b = before.b /\ trouble = "none"
        /\ ~refused => registers = call.bloc
        /\ call.op = "read" => device.data = blocks[registers]
    BY <1>7 DEF Transfer, Phases, Progress, clientVars
  <2>2. blocks \in [Block -> Data] /\ call.bloc \in Block => Others(call.bloc)'
    BY <2>1 DEF Others
  <2>3. CASE call.op = "write"
    <3>1. /\ device'.phase = "busy" /\ device'.op = "store" /\ device'.data = b
          /\ UNCHANGED <<b, registers>>
      BY <1>7, <2>3 DEF Transfer, Types, DeviceTypes, Devices
    <3> QED
      BY <2>1, <2>2, <2>3, <3>1 DEF Progress, Types, DeviceTypes
  <2>4. CASE call.op = "read"
    <3>1. device'.phase = "resting" /\ device'.op = "none" /\ b' = device.data
      BY <1>0, <1>7, <2>4 DEF Transfer
    <3> QED
      BY <2>1, <2>2, <2>4, <3>1 DEF Progress, Types, DeviceTypes
  <2> QED
    BY <1>7, <2>3, <2>4 DEF Transfer
<1>8. CASE FileSystemCalls \/ CheckCalls
  <2>1. pc' = "ready" => blocks' = before'.blocks /\ b' = before'.b /\ trouble' = "none"
    <3>1. ASSUME NEW op, NEW bloc, NEW data, Enter(op, bloc, data)
          PROVE  blocks' = before'.blocks /\ b' = before'.b /\ trouble' = "none"
      BY <3>1 DEF Enter
    <3>2. CASE FileSystemCalls
      BY <3>1, <3>2 DEF FileSystemCalls
    <3>3. CASE CheckCalls
      BY <3>1, <3>3, CheckCases DEF LoopCalls, ScriptCalls, Between
    <3> QED
      BY <1>8, <3>2, <3>3
  <2>2. device.phase = "resting" /\ device.op = "none"
    BY <1>8, ClientLeavesDrive DEF Phases
  <2> QED
    BY <1>8, <2>1, <2>2, ClientLeavesDrive DEF Progress
<1>9. CASE UNCHANGED vars
  BY <1>9 DEF Progress, Others, vars, deviceVars, driverVars, clientVars
<1> QED
  BY <1>2, <1>3, <1>4, <1>5, <1>6, <1>7, <1>8, <1>9, DriveProgress DEF Next, Driver

LEMMA FaultlessStep ==
  Types /\ Phases /\ Progress /\ Faultless /\ Measured /\ [Next]_vars => Faultless'
<1> SUFFICES ASSUME Types, Phases, Progress, Faultless, Measured, [Next]_vars, faults' = 0
             PROVE  /\ present[0]' /\ pc' = "request" /\ device'.phase = "resting" => registers' \notin Block
                    /\ pc' = "finish" => trouble' = "none"
  BY DEF Faultless
<1>1. CASE Drive
  <2>0. pc' = pc /\ present' = present
    BY <1>1 DEF Drive, driverVars, DriveReset, DriveRequests, DriveRefuses, DriveStores, Fault
  <2>1. CASE DriveReset
    <3>1. device.phase = "busy" /\ device.op = "reset" /\ UNCHANGED <<faults, trouble>>
      BY <2>1 DEF DriveReset
    <3>2. pc # "request"
      BY <3>1 DEF Phases, Types, DriverTypes, Calling
    <3> QED
      BY <2>0, <3>1, <3>2 DEF Faultless
  <2>2. CASE DriveRequests
    BY <2>0, <2>2 DEF DriveRequests, Faultless, Types, DeviceTypes, Devices
  <2>3. CASE DriveRefuses
    <3>1. pc = "request"
      BY <2>3, CommandInCall DEF DriveRefuses, Phases
    <3>2. registers \notin Block /\ registers' = registers
      BY <2>3 DEF DriveRefuses, Fault, Types, DeviceTypes
    <3> QED
      BY <2>0, <3>1, <3>2
  <2>4. CASE DriveStores
    <3>1. pc = "finish"
      BY <2>4, StoreInCall DEF DriveStores
    <3>2. UNCHANGED <<faults, trouble>>
      BY <2>4 DEF DriveStores, Fault, Types, DeviceTypes
    <3> QED
      BY <2>0, <3>1, <3>2 DEF Faultless
  <2> QED
    BY <1>1, <2>1, <2>2, <2>3, <2>4 DEF Drive
<1>2. CASE SetBlockAndCommand
  BY <1>2 DEF SetBlockAndCommand, Commanded
<1>3. CASE Transfer
  <2>1. trouble = "none" /\ pc' = "finish" /\ trouble' = trouble
    BY <1>3 DEF Transfer, Phases, Progress
  <2> QED
    BY <2>1
<1>4. CASE FileSystemCalls \/ CheckCalls
  BY <1>4, ClientLeavesDrive
<1>5. CASE ide_soft_reset \/ ResetWait \/ Ready \/ Finish \/ Probe
  BY <1>5 DEF ide_soft_reset, ResetWait, Ready, Finish, Probe, idewait
<1>6. CASE DataRequest
  BY <1>6 DEF DataRequest, deviceVars, Faultless
<1>7. CASE UNCHANGED vars
  BY <1>7 DEF vars, deviceVars, driverVars, Faultless
<1> QED
  BY <1>1, <1>2, <1>3, <1>4, <1>5, <1>6, <1>7 DEF Next, Driver

\* What holds when a call returns: without an error its block is moved, with one
\* nothing is changed, and without faults of the drive the number was too large.
LEMMA Returning ==
  ASSUME Types, Phases, Progress, Faultless, Driver, pc # "probe", pc' = "idle"
  PROVE  /\ UNCHANGED <<blocks, b, faults, call, trouble, client, test, before, refused>>
         /\ \/ /\ res' = -1 /\ blocks = before.blocks /\ b = before.b
               /\ faults = 0 /\ ~refused => call.bloc \notin Block
            \/ /\ res' = 0
               /\ ~refused =>
                    /\ call.bloc \in Block /\ Others(call.bloc)
                    /\ call.op = "read" => blocks = before.blocks /\ b = blocks[call.bloc]
                    /\ call.op = "write" /\ trouble = "none" => blocks[call.bloc] = b
               /\ faults = 0 => trouble = "none"
<1>1. CASE DataRequest
  <2>1. /\ UNCHANGED <<blocks, b, faults, call, trouble, client, test, before, refused>>
        /\ pc = "request" /\ res' = -1 /\ "ERR" \in Status
    BY <1>1 DEF DataRequest, deviceVars, clientVars
  <2>2. present[0] /\ device.phase = "resting"
    BY <2>1, StatusFacts
  <2>3. /\ blocks = before.blocks /\ b = before.b
        /\ faults = 0 /\ ~refused => call.bloc \notin Block
    BY <2>1, <2>2 DEF Progress, Faultless
  <2> QED
    BY <2>1, <2>3
<1>2. CASE Finish
  <2>1. /\ UNCHANGED <<blocks, b, faults, call, trouble, client, test, before, refused>>
        /\ pc = "finish" /\ res' = res /\ res = 0
    BY <1>2 DEF Finish, idewait, deviceVars, clientVars, Types, DriverTypes, Calling
  <2>2. device.phase = "resting"
    BY <1>2, ReadyRests DEF Finish, idewait
  <2>3. /\ ~refused =>
             /\ call.bloc \in Block /\ Others(call.bloc)
             /\ call.op = "read" => blocks = before.blocks /\ b = blocks[call.bloc]
             /\ call.op = "write" /\ trouble = "none" => blocks[call.bloc] = b
        /\ faults = 0 => trouble = "none"
    BY <2>1, <2>2 DEF Progress, Faultless
  <2> QED
    BY <2>1, <2>3
<1> QED
  BY <1>1, <1>2 DEF Driver, ide_soft_reset, ResetWait, Probe, Ready, SetBlockAndCommand, Transfer,
                    idewait

\* Until then the driver goes on with its call; the buffer changes only in a read.
LEMMA GoingOn ==
  ASSUME Types, Driver, pc \in Calling
  PROVE  /\ pc' \in Calling \cup {"idle"} /\ UNCHANGED <<call, client, test, before, faults>>
         /\ pc' # "idle" /\ call.op = "write" => b' = b
         /\ refused' # refused => pc = "set_block" /\ call.bloc >= Limit
<1>1. CASE Ready \/ Finish
  BY <1>1 DEF Ready, Finish, idewait, Calling, deviceVars, clientVars
<1>2. CASE SetBlockAndCommand
  BY <1>2 DEF SetBlockAndCommand, Calling, Types, ClientTypes
<1>3. CASE DataRequest
  BY <1>3 DEF DataRequest, Calling, deviceVars, clientVars
<1>4. CASE Transfer
  BY <1>4 DEF Transfer, Calling, clientVars
<1> QED
  BY <1>1, <1>2, <1>3, <1>4 DEF Driver, ide_soft_reset, ResetWait, Probe, Calling

LEMMA DriveMeasured ==
  ASSUME Types, Phases, Measured, Drive
  PROVE  Measured'
<1>1. UNCHANGED <<pc, call, b, res, client, test, before, refused>>
  BY DEF Drive, driverVars, clientVars
<1>2. faults' = 0 => faults = 0
  BY DEF Drive, DriveReset, DriveRequests, DriveRefuses, DriveStores, Fault, Types, DeviceTypes
<1>3. pc = "idle" => blocks' = blocks
  BY StoreInCall DEF Drive, DriveReset, DriveRequests, DriveRefuses, DriveStores, Fault
<1>4. LoopsMeasured'
  BY <1>1, <1>2 DEF Measured, LoopsMeasured
<1>5. ScriptMeasured'
  BY <1>1, <1>2, <1>3 DEF Measured, ScriptMeasured, IsWritten
<1>6. OtherMeasured'
  BY <1>1, <1>2 DEF Measured, OtherMeasured
<1> QED
  BY <1>4, <1>5, <1>6 DEF Measured

\* In the script's calls the block number is one of the disk.
LEMMA ScriptLine ==
  ASSUME Types, Measured, test.stage \in {"script", "done"}, test.i > 0
  PROVE  /\ test.i \in 1..8 /\ call.op = Script[test.i][1] /\ call.bloc = Script[test.i][2]
         /\ call.bloc \in {1, 2, 3, 5} /\ call.bloc \in Block
         /\ Writes(test.i) <=> call.op = "write"
<1>1. test.i \in 1..8 /\ <<call.op, call.bloc>> = Script[test.i]
  BY ScriptFacts DEF Types, ClientTypes, Tests, Measured, ScriptMeasured
<1>2. call.op = Script[test.i][1] /\ call.bloc = Script[test.i][2]
  BY <1>1
<1>3. call.bloc \in {1, 2, 3, 5}
  BY <1>1, <1>2, ScriptFacts
<1> QED
  BY <1>1, <1>2, <1>3, DiskSizeAssumption DEF Writes

LEMMA DriverMeasured ==
  ASSUME Types, Phases, Progress, Faultless, Measured, Driver
  PROVE  Measured'
<1>0. UNCHANGED <<call, client, test, before, faults>>
  BY DEF Driver, ide_soft_reset, ResetWait, Probe, Ready, SetBlockAndCommand, DataRequest,
         Transfer, Finish, idewait, deviceVars, clientVars
<1>1. CASE pc \notin Calling
  <2>1. pc \in {"ideinit", "reset_wait", "probe"} /\ pc' \notin Calling /\ refused' = refused
    BY <1>1 DEF Driver, ide_soft_reset, ResetWait, Probe, Ready, SetBlockAndCommand, DataRequest,
                Transfer, Finish, idewait, clientVars, Calling
  <2>2. test.stage \in {"start", "no_disk"}
    BY <1>1, <2>1 DEF Measured, LoopsMeasured, ScriptMeasured, Types, ClientTypes, Tests, Stages
  <2> QED
    BY <1>0, <2>1, <2>2 DEF Measured, LoopsMeasured, ScriptMeasured, OtherMeasured
<1>2. CASE pc \in Calling /\ client = "file_system"
  BY <1>0, <1>2 DEF Measured, LoopsMeasured, ScriptMeasured, OtherMeasured
<1>3. CASE pc \in Calling /\ client = "check"
  <2>0. test.stage \in {"write_all", "read_all", "script"} /\ test.i > 0 /\ ~refused
    BY <1>3, DiskSizeAssumption
       DEF Measured, LoopsMeasured, ScriptMeasured, OtherMeasured, Types, ClientTypes, Tests,
           Stages, Calling
  <2>1. call.bloc <= Size
    BY <2>0, ScriptLine, DiskSizeAssumption DEF Measured, LoopsMeasured
  <2>2. ~refused'
    BY <1>3, <2>0, <2>1, GoingOn, DiskSizeAssumption DEF Types, DriverTypes
  <2>3. pc' \in Calling \cup {"idle"}
    BY <1>3, GoingOn
  <2>4. pc # "probe" /\ "idle" \notin Calling
    BY <1>3 DEF Calling
  <2>5. OtherMeasured'
    BY <1>0, <2>0, <2>2 DEF Measured, OtherMeasured
  <2>6. LoopsMeasured'
    <3>1. pc' = "idle" => /\ res' = 0 => call.bloc \in Block
                          /\ res' = -1 /\ faults = 0 => call.bloc \notin Block
      BY <2>0, <2>4, Returning
    <3> QED
      BY <1>0, <2>0, <2>3, <3>1 DEF Measured, LoopsMeasured
  <2>7. ASSUME test.stage = "script"
        PROVE  ScriptMeasured'
    <3>0. /\ test.i \in 1..8 /\ call.op = Script[test.i][1] /\ call.bloc = Script[test.i][2]
          /\ call.bloc \in Block
          /\ Writes(test.i) <=> call.op = "write"
      BY <2>0, <2>7, ScriptLine
    <3>1. Writes(test.i) => before'.b = TestData[call.bloc] /\ b' = before'.b
      <4>1. Writes(test.i) => b' = b
        <5>1. CASE pc' = "idle"
          BY <2>4, <5>1, Returning
        <5>2. CASE pc' # "idle"
          BY <1>3, <3>0, <5>2, GoingOn
        <5> QED
          BY <5>1, <5>2
      <4> QED
        BY <1>0, <2>0, <2>7, <4>1 DEF Measured, ScriptMeasured
    <3>2. ASSUME faults = 0, pc' = "idle"
          PROVE  /\ \A k \in 1..test.i: IsWritten(blocks', k)
                 /\ ~Writes(test.i) => b' = TestData[call.bloc]
      <4>1. /\ blocks' = blocks /\ b' = b
            /\ Others(call.bloc)
            /\ call.op = "read" => blocks = before.blocks /\ b = blocks[call.bloc]
            /\ call.op = "write" => blocks[call.bloc] = b
        BY <2>0, <2>4, <3>0, <3>2, Returning
      <4>2. \A k \in 1..8: k < test.i => IsWritten(before.blocks, k)
        BY <2>0, <2>7, <3>0, <3>2 DEF Measured, ScriptMeasured, Types, ClientTypes, Tests
      <4>3. blocks \in [Block -> Data] /\ before.blocks \in [Block -> Data]
        BY DEF Types, DeviceTypes, ClientTypes
      <4>4. \A x \in Block: x # call.bloc => blocks[x] = before.blocks[x]
        BY <3>0, <4>1, <4>3 DEF Others
      <4>5. CASE Writes(test.i)
        <5>1. blocks[call.bloc] = TestData[call.bloc]
          BY <1>0, <3>0, <3>1, <4>1, <4>5
        <5>2. ASSUME NEW k \in 1..8, k < test.i, Writes(k)
              PROVE  blocks[Script[k][2]] = TestData[Script[k][2]]
          <6>1. Script[k][2] # call.bloc /\ Script[k][2] \in Block
            BY <3>0, <4>5, <5>2, ScriptFacts, DiskSizeAssumption
          <6>2. before.blocks[Script[k][2]] = TestData[Script[k][2]]
            BY <4>2, <5>2 DEF IsWritten
          <6> QED
            BY <4>4, <6>1, <6>2
        <5> QED
          BY <3>0, <4>1, <4>5, <5>1, <5>2 DEF IsWritten
      <4>6. CASE ~Writes(test.i)
        <5>1. call.op = "read"
          BY <3>0, <4>6, ScriptFacts
        <5>2. PICK j \in 1..8: j < test.i /\ Writes(j) /\ Script[j][2] = Script[test.i][2]
          BY <3>0, <4>6, ScriptFacts
        <5>3. b = TestData[call.bloc]
          BY <3>0, <4>1, <4>2, <5>1, <5>2 DEF IsWritten
        <5>4. \A k \in 1..test.i: IsWritten(blocks, k)
          BY <3>0, <4>1, <4>2, <4>6, <5>1 DEF IsWritten
        <5> QED
          BY <4>1, <5>3, <5>4
      <4> QED
        BY <4>5, <4>6
    <3>3. faults = 0 => /\ test.failed = {}
                        /\ \A k \in 1..test.i: k < test.i => IsWritten(before.blocks, k)
      BY <2>7 DEF Measured, ScriptMeasured
    <3>4. test.i <= Len(Script) /\ <<call.op, call.bloc>> = Script[test.i]
      BY <2>0, <2>7 DEF Measured, ScriptMeasured
    <3> QED
      BY <1>0, <2>0, <2>3, <2>7, <3>1, <3>2, <3>3, <3>4 DEF ScriptMeasured, IsWritten
  <2> QED
    BY <1>0, <2>0, <2>5, <2>6, <2>7 DEF Measured, ScriptMeasured
<1> QED
  BY <1>1, <1>2, <1>3 DEF Types, ClientTypes

LEMMA ClientMeasured ==
  ASSUME Types, Measured, FileSystemCalls \/ CheckCalls
  PROVE  Measured'
<1>0. UNCHANGED <<faults, blocks>> /\ pc = "idle"
  BY ClientLeavesDrive
<1>1. CASE FileSystemCalls
  BY <1>0, <1>1, ClientLeavesDrive
     DEF FileSystemCalls, Measured, LoopsMeasured, ScriptMeasured, OtherMeasured
<1>2. CASE CheckCalls
  <2>0. /\ client = "check" /\ client' = client /\ refused' = refused /\ ~refused
        /\ LoopCalls \/ ScriptCalls \/ Between
    BY <1>2, CheckCases DEF Measured, OtherMeasured
  <2>1. CASE LoopCalls
    <3>1. /\ pc' = "ready" /\ call'.bloc = test.i /\ test.i \in 0..Size
          /\ test'.stage = test.stage /\ test'.i = test.i + 1 /\ test'.failed = test.failed
          /\ test'.proso_blocks = test.proso_blocks
          /\ test.stage \in {"write_all", "read_all"}
      BY <2>1, DataAssumption DEF LoopCalls, Enter, Types, ClientTypes, Tests
    <3> QED
      BY <1>0, <2>0, <3>1 DEF Measured, LoopsMeasured, ScriptMeasured, OtherMeasured, Calling
  <2>2. CASE ScriptCalls
    <3>1. PICK op \in {"write", "read"}, bloc \in {1, 2, 3, 5}:
            /\ Script[test.i + 1] = <<op, bloc>>
            /\ Enter(op, bloc, IF op = "write" THEN TestData[bloc] ELSE Ones)
      BY <2>2 DEF ScriptCalls
    <3>2. (IF op = "write" THEN TestData[bloc] ELSE Ones) # NULL
      BY DataAssumption
    <3>3. /\ pc' = "ready" /\ call' = [op |-> op, bloc |-> bloc] /\ b' = before'.b
          /\ before'.blocks = blocks
          /\ op = "write" => b' = TestData[bloc]
      BY <3>1, <3>2 DEF Enter
    <3>4. /\ test'.stage = "script" /\ test'.i = test.i + 1 /\ test'.failed = Checked
          /\ test'.proso_blocks = test.proso_blocks
          /\ test.stage = "script" /\ test.i \in 0..7
      BY <2>2 DEF ScriptCalls, Types, ClientTypes, Tests
    <3>5. /\ <<call'.op, call'.bloc>> = Script[test'.i]
          /\ Writes(test'.i) => before'.b = TestData[call'.bloc] /\ b' = before'.b
      BY <3>1, <3>3, <3>4 DEF Writes
    <3>6. faults = 0 => Checked = {}
      <4>1. faults = 0 /\ test.i > 0 /\ ~Writes(test.i) => b = TestData[Script[test.i][2]]
        BY <1>0, <3>4, ScriptLine DEF Measured, ScriptMeasured
      <4>2. faults = 0 => test.failed = {}
        BY <3>4 DEF Measured, ScriptMeasured
      <4>3. test.i > 0 => Script[test.i][1] \in {"read", "write"}
        BY <3>4, ScriptFacts
      <4> QED
        BY <4>1, <4>2, <4>3 DEF Checked, Writes
    <3>7. faults = 0 => \A k \in 1..test'.i: k < test'.i => IsWritten(before'.blocks, k)
      <4>1. \A k \in 1..test'.i: k < test'.i => k \in 1..test.i
        BY <3>4
      <4>2. faults = 0 => \A k \in 1..test.i: IsWritten(blocks, k)
        BY <1>0, <3>4 DEF Measured, ScriptMeasured
      <4> QED
        BY <3>3, <4>1, <4>2
    <3>8. test'.i <= Len(Script) /\ test'.i > 0
      BY <3>4, ScriptFacts
    <3>9. ScriptMeasured'
      BY <1>0, <3>3, <3>4, <3>5, <3>6, <3>7, <3>8 DEF ScriptMeasured, Calling
    <3> QED
      BY <1>0, <2>0, <3>3, <3>4, <3>6, <3>9 DEF Measured, LoopsMeasured, OtherMeasured
  <2>3. CASE Between
    <3>0. UNCHANGED <<faults, before, pc, call, b>> /\ pc = "idle" /\ "idle" \notin Calling
      BY <1>0, <2>3 DEF Between, Calling
    <3>1. CASE test.stage = "start"
      <4>1. PICK stage \in {"write_all", "no_disk"}: test' = [test EXCEPT !.stage = stage]
        BY <2>3, <3>1 DEF Between
      <4>2. /\ test'.stage = stage /\ test'.i = test.i /\ test'.failed = test.failed
            /\ test.i = 0 /\ test.failed = {} /\ res' = 0
        BY <2>0, <2>3, <3>1, <4>1 DEF Between, Measured, OtherMeasured, Types, ClientTypes, Tests
      <4> QED
        BY <2>0, <3>0, <4>2 DEF Measured, LoopsMeasured, ScriptMeasured, OtherMeasured
    <3>2. CASE test.stage = "write_all"
      <4>1. /\ test'.stage = "read_all" /\ test'.i = 0 /\ test'.failed = test.failed
            /\ test'.proso_blocks = test.i - 1 /\ res = -1 /\ res' = 0
        BY <2>3, <3>2 DEF Between, Types, ClientTypes, Tests
      <4>2. /\ test.failed = {} /\ test.i > 0 /\ call.bloc = test.i - 1 /\ call.bloc <= Size
            /\ faults = 0 => call.bloc \notin Block
        BY <3>0, <3>2, <4>1 DEF Measured, LoopsMeasured, Types, ClientTypes, Tests
      <4>3. faults = 0 => call.bloc = Size
        BY <4>2, DiskSizeAssumption DEF Types, DriverTypes
      <4> QED
        BY <2>0, <3>0, <4>1, <4>2, <4>3 DEF Measured, LoopsMeasured, ScriptMeasured, OtherMeasured
    <3>3. CASE test.stage = "read_all"
      <4>1. /\ test'.stage = "script" /\ test'.i = 0 /\ test'.failed = test.failed
            /\ test'.proso_blocks = test.proso_blocks
        BY <2>3, <3>3 DEF Between, Types, ClientTypes, Tests
      <4>2. faults = 0 => test.proso_blocks = Size
        BY <3>3 DEF Measured, OtherMeasured
      <4>3. test.failed = {}
        BY <3>3 DEF Measured, LoopsMeasured
      <4> QED
        BY <2>0, <3>0, <4>1, <4>2, <4>3, ScriptFacts
           DEF Measured, LoopsMeasured, ScriptMeasured, OtherMeasured
    <3>4. CASE test.stage = "script"
      <4>1. /\ test'.stage = "done" /\ test'.i = test.i /\ test'.failed = Checked
            /\ test'.proso_blocks = test.proso_blocks /\ test.i = 8
        BY <2>3, <3>4 DEF Between, Types, ClientTypes, Tests
      <4>2. faults = 0 => Checked = {}
        <5>1. faults = 0 => b = TestData[Script[test.i][2]] \/ Writes(test.i)
          BY <3>0, <3>4, <4>1, ScriptLine DEF Measured, ScriptMeasured
        <5>2. faults = 0 => test.failed = {}
          BY <3>4 DEF Measured, ScriptMeasured
        <5>3. Script[test.i][1] \in {"read", "write"}
          BY <4>1, ScriptFacts
        <5> QED
          BY <5>1, <5>2, <5>3 DEF Checked, Writes
      <4>3. blocks' = blocks
        BY <1>0
      <4>4. ScriptMeasured'
        BY <3>0, <3>4, <4>1, <4>2, <4>3 DEF Measured, ScriptMeasured, IsWritten
      <4> QED
        BY <2>0, <3>0, <3>4, <4>1, <4>4 DEF Measured, LoopsMeasured, OtherMeasured
    <3> QED
      BY <2>3, <3>1, <3>2, <3>3, <3>4 DEF Between
  <2> QED
    BY <2>0, <2>1, <2>2, <2>3
<1> QED
  BY <1>1, <1>2

LEMMA MeasuredStep ==
  Types /\ Phases /\ Progress /\ Faultless /\ Measured /\ [Next]_vars => Measured'
<1>1. UNCHANGED vars /\ Measured => Measured'
  <2> SUFFICES ASSUME UNCHANGED vars, Measured PROVE Measured'
    OBVIOUS
  <2>1. UNCHANGED <<pc, call, b, res, client, test, before, refused, faults, blocks>>
    BY DEF vars, deviceVars, driverVars, clientVars
  <2> QED
    BY <2>1 DEF Measured, LoopsMeasured, ScriptMeasured, OtherMeasured, IsWritten
<1> QED
  BY <1>1, DriveMeasured, DriverMeasured, ClientMeasured DEF Next

-----------------------------------------------------------------------------
(* The theorems *)

LEMMA InitIde == Init => IdeInv
<1> SUFFICES ASSUME Init PROVE IdeInv
  OBVIOUS
<1>1. DeviceTypes
  BY DataAssumption, DiskSizeAssumption, BoundsAssumption
     DEF Init, DeviceTypes, Devices, Resting
<1>2. DriverTypes
  BY DataAssumption, DiskSizeAssumption DEF Init, DriverTypes, NoCall, Calling
<1>3. ClientTypes
  <2>1. test \in Tests
    BY DiskSizeAssumption DEF Init, Tests, Stages
  <2>2. blocks \in [Block -> Data] /\ b \in Data
    BY DataAssumption DEF Init
  <2>3. before \in [blocks: [Block -> Data], b: Data \cup {NULL}]
    BY <2>2 DEF Init
  <2>4. refused \in BOOLEAN
    BY DEF Init
  <2>5. calls \in 0..MaxCalls /\ client \in {"file_system", "check"}
    BY BoundsAssumption DEF Init
  <2> QED
    BY <2>1, <2>3, <2>4, <2>5 DEF ClientTypes
<1>4. Phases /\ Progress /\ Faultless
  BY DEF Init, Phases, Progress, Faultless, Resting
<1>5. Measured
  BY DEF Init, Measured, LoopsMeasured, ScriptMeasured, OtherMeasured, Calling
<1> QED
  BY <1>1, <1>2, <1>3, <1>4, <1>5 DEF IdeInv, Types

\* The invariant holds in every reachable state.
LEMMA IdeInvHolds == Spec => []IdeInv
<1>1. IdeInv /\ [Next]_vars => IdeInv'
  BY TypesStep, PhasesStep, ProgressStep, FaultlessStep, MeasuredStep DEF IdeInv
<1> QED
  BY InitIde, <1>1, PTL DEF Spec

\* Every variable keeps its type: the block number the driver writes fits the
\* registers (idesetblock), and the loops of ide_check_disk end in time.
THEOREM IdeTypes == Spec => []TypeOK
<1>1. IdeInv => TypeOK
  <2> SUFFICES ASSUME IdeInv PROVE TypeOK
    OBVIOUS
  <2>1. DeviceTypes /\ DriverTypes /\ ClientTypes
    BY DEF IdeInv, Types
  <2>2. test.i \in Nat /\ test.proso_blocks \in 0..Size /\ test.failed \subseteq 1..Len(Script)
    BY <2>1 DEF ClientTypes, Tests
  <2> QED
    BY <2>1, <2>2 DEF TypeOK, DeviceTypes, Devices, DriverTypes, ClientTypes, Calling
<1> QED
  BY IdeInvHolds, <1>1, PTL

\* ide_check_disk measures a disk without defects exactly and finds no bad block,
\* whatever its size and contents and however the drive and the driver interleave.
THEOREM SelfTestIsRight == Spec => []SelfTestMeasuresDisk
<1>1. IdeInv => SelfTestMeasuresDisk
  BY DEF IdeInv, Measured, ScriptMeasured, OtherMeasured, SelfTestMeasuresDisk
<1> QED
  BY IdeInvHolds, <1>1, PTL

\* A command is only written to a drive at rest (the idewait calls of ide.c).
THEOREM CommandsWait == Spec => CommandsFindDriveResting
<1>1. IdeInv => [pc = "set_block" /\ pc' = "request" /\ present[0] => device.phase = "resting"]_vars
  BY DEF IdeInv, Phases
<1> QED
  BY IdeInvHolds, <1>1, PTL DEF CommandsFindDriveResting

\* ide_read_block and ide_write_block do all of their work or none, and touch no
\* other block than theirs.
THEOREM CallsDoAllOrNothing == Spec => CallsAreAtomic
<1> DEFINE Atomic ==
      Returns /\ ~refused =>
        IF res' = -1 THEN blocks' = before.blocks /\ b' = before.b
        ELSE /\ call.bloc \in Block /\ Others(call.bloc)
             /\ call.op = "read" => b' = blocks'[call.bloc] /\ blocks' = before.blocks
             /\ call.op = "write" /\ trouble' = "none" => blocks'[call.bloc] = b'
<1>1. IdeInv /\ [Next]_vars => [Atomic]_vars
  <2> SUFFICES ASSUME IdeInv, Next, Returns, ~refused PROVE Atomic
    BY DEF IdeInv
  <2>1. Driver
    BY ClientLeavesDrive DEF Next, Drive, driverVars, Returns, IdeInv
  <2> QED
    BY <2>1, Returning DEF IdeInv, Returns
<1> QED
  BY IdeInvHolds, <1>1, PTL DEF CallsAreAtomic, Spec
=============================================================================
