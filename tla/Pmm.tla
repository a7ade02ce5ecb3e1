-------------------------------- MODULE Pmm --------------------------------
(***************************************************************************)
(* The physical memory manager (mm/pmm.c) from the boot loader's memory    *)
(* map on: MpInitialize marks the frames of available memory as free, then *)
(* those of the kernel and of the boot modules as taken; after that frames *)
(* are requested and cleared.  Physical addresses have PhysicalBits bits   *)
(* in the kernel; the ones of the memory map are wider.  The address of a  *)
(* frame is its number times FrameSize.                                    *)
(*                                                                         *)
(* No region has a length in the last frame below 2^(PhysicalBits - 1),    *)
(* for which the loop's counter overflows.                                 *)
(***************************************************************************)
EXTENDS Integers, Sequences, FiniteSets

CONSTANTS
  PhysicalBits,  \* bits of a physical address
  FrameSize,
  KernelStart,   \* 0x100, the first frame of the kernel
  e_placement,   \* the address where the kernel ends
  MemoryMaps,    \* sequences of regions: addr, len and whether available
  ModuleLists    \* sequences of modules: mod_start and mod_end

(* What the parts of the code that are not modelled guarantee.  The        *)
(* boot loader's regions do not overlap, though they begin and end         *)
(* anywhere.  Its modules end a frame or more below the limit of           *)
(* addresses, so that the loop over a module does not run past it.         *)
ASSUME PmmAssumption ==
  /\ PhysicalBits \in Nat \ {0} /\ FrameSize \in Nat \ {0} /\ 2^PhysicalBits % FrameSize = 0
  /\ KernelStart \in Nat \ {0} /\ e_placement \in Nat
  /\ e_placement >= KernelStart * FrameSize
  /\ \A map \in MemoryMaps :
       /\ map \in Seq([addr : Nat, len : Nat, available : BOOLEAN])
       /\ \A j, k \in DOMAIN map :
            \/ j = k
            \/ map[j].addr + map[j].len <= map[k].addr
            \/ map[k].addr + map[k].len <= map[j].addr
  /\ \A list \in ModuleLists :
       /\ list \in Seq([mod_start : Nat, mod_end : Nat])
       /\ \A k \in DOMAIN list : list[k].mod_end + FrameSize <= 2^PhysicalBits

VARIABLES
  memoryMap, modules,     \* what the boot loader passes
  phase,                  \* "map", "modules", "running"
  next,                   \* the region or module that comes next
  free,                   \* the frames whose bit in g_frameBitset is clear
  g_numPagesAvailable,
  given,                  \* not in the code: the frames that were handed out
  result                  \* what MpRequestFrame returned last, -1 before

pmmVars == <<memoryMap, modules, phase, next, free, g_numPagesAvailable, given, result>>

PhysicalLimit == 2^PhysicalBits

FrameNumbers == 0..PhysicalLimit \div FrameSize - 1

FrameOf(address) == (address % PhysicalLimit) \div FrameSize

(* A number of PhysicalBits bits as an int.                                *)
AsInt(n) ==
  IF n % PhysicalLimit < PhysicalLimit \div 2 THEN n % PhysicalLimit
  ELSE (n % PhysicalLimit) - PhysicalLimit

-----------------------------------------------------------------------------
(* The addresses that the loop over a region goes to, one frame apart, cut *)
(* to PhysicalBits bits.                                                   *)
AddressesAndOne(region) ==  \* mutant: i <= (int) len
  {(region.addr + i * FrameSize) % PhysicalLimit :
     i \in {k \in FrameNumbers : k * FrameSize <= AsInt(region.len)}}

AddressesOf(region) ==
  {(region.addr + i * FrameSize) % PhysicalLimit :
     i \in {k \in FrameNumbers : k * FrameSize < AsInt(region.len)}}

IsAnywhere(address) == TRUE  \* mutant: the test is commented out

IsUsable(address) == address >= e_placement

FreeRegion ==
  /\ phase = "map" /\ next <= Len(memoryMap)
  /\ free' = IF memoryMap[next].available
             THEN free \cup
                    {FrameOf(a) : a \in {b \in AddressesOf(memoryMap[next]) : IsUsable(b)}}
             ELSE free
  /\ next' = next + 1
  /\ UNCHANGED <<memoryMap, modules, phase, g_numPagesAvailable, given, result>>

KernelFramesAndOne ==  \* mutant: i <= (e_placement >> 12) + 1
  KernelStart..e_placement \div FrameSize + 1

KernelFrames == KernelStart..e_placement \div FrameSize

BlockKernel ==
  /\ phase = "map" /\ next > Len(memoryMap)
  /\ free' = free \ KernelFrames
  /\ phase' = "modules" /\ next' = 1
  /\ UNCHANGED <<memoryMap, modules, g_numPagesAvailable, given, result>>

(* From the start of a module on, one frame apart, up to its end, which    *)
(* need not be the end of a frame.                                         *)
FramesBelow(module) ==  \* mutant: pg < mod_end
  {FrameOf(a) : a \in {b \in module.mod_start..module.mod_end - 1 :
                        (b - module.mod_start) % FrameSize = 0}}

FramesOfModule(module) ==
  {FrameOf(a) : a \in {b \in module.mod_start..module.mod_end + FrameSize - 2 :
                        (b - module.mod_start) % FrameSize = 0}}

BlockModule ==
  /\ phase = "modules" /\ next <= Len(modules)
  /\ free' = free \ FramesOfModule(modules[next])
  /\ next' = next + 1
  /\ UNCHANGED <<memoryMap, modules, phase, g_numPagesAvailable, given, result>>

MpGetNumFreePages == Cardinality(free)

Start ==
  /\ phase = "modules" /\ next > Len(modules)
  /\ phase' = "running"
  /\ g_numPagesAvailable' = MpGetNumFreePages
  /\ UNCHANGED <<memoryMap, modules, next, free, given, result>>

-----------------------------------------------------------------------------
(* MpRequestFrame for the kernel heap; the reference counter of a user     *)
(* page is in UserHeap.  The address zero stands for no frame.             *)
MpFindFreeFrame == CHOOSE f \in free : \A g \in free : f <= g

MpRequestFrame ==
  /\ phase = "running"
  /\ IF free = {} THEN result' = 0 /\ UNCHANGED <<free, given>>
     ELSE /\ result' = MpFindFreeFrame * FrameSize
          /\ free' = free \ {MpFindFreeFrame}
          /\ given' = IF result' = 0 THEN given ELSE given \cup {MpFindFreeFrame}
  /\ UNCHANGED <<memoryMap, modules, phase, next, g_numPagesAvailable>>

(* The owner of a frame gives it back.                                     *)
MpClearFrame(f) ==
  /\ phase = "running" /\ f \in given
  /\ free' = free \cup {f} /\ given' = given \ {f}
  /\ UNCHANGED <<memoryMap, modules, phase, next, g_numPagesAvailable, result>>

-----------------------------------------------------------------------------
PmmInit ==
  /\ memoryMap \in MemoryMaps /\ modules \in ModuleLists
  /\ phase = "map" /\ next = 1
  /\ free = {} /\ g_numPagesAvailable = 0
  /\ given = {} /\ result = -1

PmmNext ==
  \/ FreeRegion \/ BlockKernel \/ BlockModule \/ Start
  \/ MpRequestFrame
  \/ \E f \in given : MpClearFrame(f)

PmmSpec == PmmInit /\ [][PmmNext]_pmmVars

-----------------------------------------------------------------------------
(* The bytes of a region or module, and the frames that touch them.        *)
Touched(first, last) ==
  {f \in FrameNumbers : f * FrameSize <= last /\ first < (f + 1) * FrameSize}

(* No frame of the kernel or of a module is ever handed out, wherever the  *)
(* boot loader put the module in its frames.                               *)
KernelAndModulesStay ==
  phase = "running" =>
    \A f \in free \cup given :
      /\ f \notin KernelFrames
      /\ \A k \in DOMAIN modules :
           f \notin Touched(modules[k].mod_start, modules[k].mod_end - 1)

(* The bytes of a region, which may lie above the limit of addresses.      *)
BytesOf(region) == region.addr..region.addr + region.len - 1

IsCut(region) == region.addr + region.len > PhysicalLimit

BeginsOrEndsIn(region, f) ==
  \E edge \in {region.addr, region.addr + region.len} :
    f * FrameSize < edge /\ edge < (f + 1) * FrameSize

(* No frame is invented: one that is free or given has a byte of an        *)
(* available region, at its address cut to PhysicalBits bits.  It may have *)
(* bytes of reserved regions as well, but only where that available region *)
(* begins or ends in the middle of the frame, or lies above the limit and  *)
(* is cut to addresses that were never its own.                            *)
OfferedIsMemory ==
  \A f \in free \cup given :
    \E k \in DOMAIN memoryMap :
      /\ memoryMap[k].available
      /\ \E a \in BytesOf(memoryMap[k]) : FrameOf(a) = f
      /\ \/ IsCut(memoryMap[k])
         \/ BeginsOrEndsIn(memoryMap[k], f)
         \/ \A j \in DOMAIN memoryMap :
              ~memoryMap[j].available =>
                f \notin Touched(memoryMap[j].addr,
                                memoryMap[j].addr + memoryMap[j].len - 1)

(* No memory is lost: a whole frame of an available region, behind the     *)
(* kernel, is free or given, unless a module touches it or ends before it. *)
(* Regions of half the address space or more are not offered.              *)
MemoryIsOffered ==
  phase = "running" =>
    \A k \in DOMAIN memoryMap, f \in FrameNumbers :
      /\ memoryMap[k].available /\ memoryMap[k].len < PhysicalLimit \div 2
      /\ memoryMap[k].addr <= f * FrameSize
      /\ (f + 1) * FrameSize <= memoryMap[k].addr + memoryMap[k].len
      /\ f > e_placement \div FrameSize
      /\ \A j \in DOMAIN modules :
           f \notin Touched(modules[j].mod_start, modules[j].mod_end + FrameSize - 2)
      => f \in free \cup given

(* The loop over a region comes by no frame in which the region has no     *)
(* byte, and by every frame that is all of the region.  It does not keep   *)
(* reserved memory out of what is handed out: see OfferedIsMemory.         *)
FramesAreMemory == OfferedIsMemory /\ MemoryIsOffered

(* MpRequestFrame returns zero only if there is no frame left: frame zero  *)
(* is never free, though a memory map may offer it.                        *)
ZeroMeansNone == [][MpRequestFrame /\ result' = 0 => free = {}]_pmmVars
=============================================================================
