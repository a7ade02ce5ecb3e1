-------------------------- MODULE SequentialProofs --------------------------
(***************************************************************************)
(* Theorems about the parts that run alone: Pmm, MapSearch, Translation,   *)
(* Format and Strings, each for every value of its constants.              *)
(***************************************************************************)
EXTENDS MCSequential, FrameBitsetProofs, SequenceTheorems

-----------------------------------------------------------------------------
(***************************************************************************)
(* Pmm: which frames are offered.  An invariant follows the scan of the    *)
(* memory map region by region, then of the modules, then of the frames    *)
(* that are handed out.                                                    *)
(***************************************************************************)
(* A power of two is not zero: it is how many subsets a set has.           *)
LEMMA PowerType ==
  ASSUME NEW n \in Nat
  PROVE  2^n \in Nat \ {0}
<1>1. IsFiniteSet(1..n) /\ Cardinality(1..n) = n
  BY FS_Interval
<1>2. IsFiniteSet(SUBSET (1..n)) /\ Cardinality(SUBSET (1..n)) = 2^n
  BY <1>1, FS_SUBSET
<1>3. Cardinality(SUBSET (1..n)) \in Nat /\ Cardinality(SUBSET (1..n)) # 0
  BY <1>2, FS_CardinalityType, FS_EmptySet
<1> QED
  BY <1>2, <1>3

(* The facts about division that SMT needs in small portions: what it is,  *)
(* products with a positive factor, and what fixes quotient and remainder. *)
LEMMA Division ==
  ASSUME NEW a \in Int, NEW b \in Nat \ {0}
  PROVE  /\ a \div b \in Int /\ a % b \in 0..b - 1
         /\ a = (a \div b) * b + (a % b)
OBVIOUS

LEMMA Products ==
  ASSUME NEW a \in Int, NEW b \in Int, NEW c \in Nat \ {0}
  PROVE  /\ a * c \in Int /\ b * c \in Int
         /\ (a + 1) * c = a * c + c
         /\ a <= b => a * c <= b * c
         /\ a < b => a * c + c <= b * c
<1>1. (a + 1) * c = a * c + c
  OBVIOUS
<1>2. ASSUME a <= b PROVE a * c <= b * c
  BY <1>2
<1>3. ASSUME a < b PROVE (a + 1) * c <= b * c
  BY <1>3
<1> QED
  BY <1>1, <1>2, <1>3

LEMMA Remainders ==
  ASSUME NEW p \in Int, NEW q \in Int, NEW r \in Int, NEW t \in Int, NEW b \in Nat \ {0},
         p * b + r = q * b + t, 0 <= r, r < b, 0 <= t, t < b
  PROVE  p = q /\ r = t
<1>1. ~(p < q)
  BY Products
<1>2. ~(q < p)
  BY Products
<1>3. p = q
  BY <1>1, <1>2
<1> QED
  BY <1>3

(* Of a product with a remainder, both parts are known.                    *)
LEMMA Quotient ==
  ASSUME NEW a \in Int, NEW q \in Int, NEW r \in Int, NEW b \in Nat \ {0},
         a = q * b + r, 0 <= r, r < b
  PROVE  a \div b = q /\ a % b = r
<1>1. /\ a \div b \in Int /\ a % b \in 0..b - 1
      /\ a = (a \div b) * b + (a % b)
  BY Division
<1>2. /\ a % b \in Int /\ 0 <= a % b /\ a % b < b
      /\ (a \div b) * b + (a % b) = q * b + r
  BY <1>1
<1> QED
  BY <1>1, <1>2, Remainders

-----------------------------------------------------------------------------
(* The sizes that all of the lemmas rest on: memory has a whole number of  *)
(* frames.                                                                 *)
LEMMA PmmLimit ==
  /\ PhysicalLimit \in Nat \ {0} /\ FrameSize \in Nat \ {0}
  /\ PhysicalLimit \div FrameSize \in Nat
  /\ PhysicalLimit = (PhysicalLimit \div FrameSize) * FrameSize
<1>1. PhysicalLimit \in Nat \ {0} /\ FrameSize \in Nat \ {0} /\ PhysicalLimit % FrameSize = 0
  BY PmmAssumption, PowerType DEF PhysicalLimit
<1>2. PhysicalLimit \div FrameSize \in Int
      /\ PhysicalLimit = (PhysicalLimit \div FrameSize) * FrameSize
  BY <1>1, Division
<1>3. ~(PhysicalLimit \div FrameSize < 0)
  BY <1>1, <1>2, Products
<1> QED
  BY <1>1, <1>2, <1>3

(* Where a frame lies, and the frame of an address in it.                  *)
LEMMA FrameBounds ==
  ASSUME NEW f \in FrameNumbers
  PROVE  /\ f \in Nat /\ f * FrameSize \in Nat
         /\ (f + 1) * FrameSize = f * FrameSize + FrameSize
         /\ f * FrameSize + FrameSize <= PhysicalLimit
<1>1. f \in Nat /\ f < PhysicalLimit \div FrameSize
  BY PmmLimit DEF FrameNumbers
<1> QED
  BY <1>1, PmmLimit, Products

LEMMA FrameOfIs ==
  ASSUME NEW a \in Nat, NEW f \in FrameNumbers,
         f * FrameSize <= a, a < f * FrameSize + FrameSize
  PROVE  FrameOf(a) = f
<1>1. a < PhysicalLimit /\ a % PhysicalLimit = a
  BY FrameBounds, PmmLimit
<1>2. f \in Nat /\ f * FrameSize \in Nat
  BY FrameBounds
<1>3. a = f * FrameSize + (a - f * FrameSize)
  BY <1>2
<1>4. a \div FrameSize = f
  BY <1>2, <1>3, PmmLimit, Quotient
<1> QED
  BY <1>1, <1>4 DEF FrameOf

(* The frame of an address exists, and holds it if it does not wrap.       *)
LEMMA FrameOfType ==
  ASSUME NEW a \in Nat
  PROVE  /\ FrameOf(a) \in FrameNumbers
         /\ a < PhysicalLimit => /\ FrameOf(a) * FrameSize <= a
                                 /\ a < FrameOf(a) * FrameSize + FrameSize
<1> DEFINE b == a % PhysicalLimit
<1>1. b \in Nat /\ b < PhysicalLimit /\ (a < PhysicalLimit => b = a)
  BY PmmLimit, Division
<1> HIDE DEF b
<1>2. /\ b \div FrameSize \in Int /\ b % FrameSize \in 0..FrameSize - 1
      /\ b = (b \div FrameSize) * FrameSize + (b % FrameSize)
  BY <1>1, PmmLimit, Division
<1>3. /\ (b \div FrameSize) * FrameSize <= b
      /\ b < (b \div FrameSize) * FrameSize + FrameSize
  BY <1>1, <1>2, PmmLimit
<1>4. ~(b \div FrameSize < 0)
  BY <1>1, <1>2, <1>3, PmmLimit, Products
<1>5. ~(PhysicalLimit \div FrameSize <= b \div FrameSize)
  BY <1>1, <1>2, <1>3, PmmLimit, Products
<1>6. FrameOf(a) = b \div FrameSize
  BY DEF FrameOf, b
<1> QED
  BY <1>1, <1>2, <1>3, <1>4, <1>5, <1>6, PmmLimit DEF FrameNumbers

(* From x on, one frame apart, the addresses come by every frame.          *)
LEMMA NextAligned ==
  ASSUME NEW x \in Nat, NEW y \in Nat, x <= y
  PROVE  \E i \in Nat : y <= x + i * FrameSize /\ x + i * FrameSize < y + FrameSize
<1> DEFINE d == y - x + FrameSize - 1
<1>1. d \in Nat /\ y = d + x - FrameSize + 1
  BY PmmLimit
<1> HIDE DEF d
<1>2. /\ d \div FrameSize \in Int /\ d % FrameSize \in 0..FrameSize - 1
      /\ d = (d \div FrameSize) * FrameSize + (d % FrameSize)
  BY <1>1, PmmLimit, Division
<1>3. ~(d \div FrameSize < 0)
  BY <1>1, <1>2, PmmLimit, Products
<1>4. (d \div FrameSize) * FrameSize \in Int
  BY <1>2, PmmLimit, Products
<1>5. /\ d \div FrameSize \in Nat
      /\ y <= x + (d \div FrameSize) * FrameSize
      /\ x + (d \div FrameSize) * FrameSize < y + FrameSize
  BY <1>1, <1>2, <1>3, <1>4, PmmLimit
<1> QED
  BY <1>5

(* A size is at least what it is as an int, and the same if it is small.   *)
LEMMA AsIntIs ==
  ASSUME NEW n \in Nat
  PROVE  /\ AsInt(n) \in Int /\ AsInt(n) <= n
         /\ n < PhysicalLimit \div 2 => AsInt(n) = n
<1>1. /\ n % PhysicalLimit \in 0..PhysicalLimit - 1 /\ n % PhysicalLimit <= n
      /\ n < PhysicalLimit => n % PhysicalLimit = n
  BY PmmLimit
<1>2. PhysicalLimit \div 2 \in Nat /\ PhysicalLimit \div 2 <= PhysicalLimit
  BY PmmLimit
<1> QED
  BY <1>1, <1>2, PmmLimit DEF AsInt

(* What the loop over a region offers is the frame of one of its bytes,    *)
(* cut if it is above the limit, and not frame zero.                       *)
LEMMA RegionOnly ==
  ASSUME NEW region \in [addr : Nat, len : Nat, available : BOOLEAN],
         NEW b \in AddressesOf(region), IsUsable(b)
  PROVE  /\ FrameOf(b) \in FrameNumbers \ {0}
         /\ \E a \in BytesOf(region) : FrameOf(a) = FrameOf(b)
<1>1. PICK i \in FrameNumbers :
        i * FrameSize < AsInt(region.len) /\ b = (region.addr + i * FrameSize) % PhysicalLimit
  BY DEF AddressesOf
<1>2. region.addr \in Nat /\ region.len \in Nat /\ i * FrameSize \in Nat
  BY FrameBounds
<1>3. b \in Nat /\ b < PhysicalLimit
  <2>1. region.addr + i * FrameSize \in Int
    BY <1>2
  <2>2. (region.addr + i * FrameSize) % PhysicalLimit \in 0..PhysicalLimit - 1
    BY <2>1, PmmLimit, Division
  <2> QED
    BY <1>1, <2>2, PmmLimit
<1>4. /\ FrameOf(b) \in FrameNumbers /\ FrameOf(b) \in Nat
      /\ FrameOf(b) * FrameSize <= b /\ b < FrameOf(b) * FrameSize + FrameSize
      /\ (FrameOf(b) + 1) * FrameSize = FrameOf(b) * FrameSize + FrameSize
  BY <1>3, FrameOfType, FrameBounds
<1>5. b >= FrameSize
  <2>1. 1 <= KernelStart /\ KernelStart \in Int /\ e_placement \in Nat
    BY PmmAssumption
  <2>2. FrameSize <= KernelStart * FrameSize /\ KernelStart * FrameSize \in Int
    BY <2>1, PmmLimit, Products
  <2>3. e_placement >= KernelStart * FrameSize /\ b >= e_placement
    BY PmmAssumption DEF IsUsable
  <2> QED
    BY <1>3, <2>1, <2>2, <2>3, PmmLimit
<1>6. FrameOf(b) # 0
  <2>1. ASSUME FrameOf(b) = 0 PROVE FrameOf(b) * FrameSize = 0
    BY <2>1, PmmLimit
  <2> QED
    BY <1>3, <1>4, <1>5, <2>1, PmmLimit
<1> DEFINE a == region.addr + i * FrameSize
<1>7. i * FrameSize < region.len
  BY <1>1, <1>2, AsIntIs
<1>8. a \in BytesOf(region)
  BY <1>2, <1>7 DEF BytesOf
<1>9. FrameOf(a) = FrameOf(b)
  <2>1. b % PhysicalLimit = b
    BY <1>3, PmmLimit
  <2> QED
    BY <1>1, <2>1 DEF FrameOf
<1> QED
  BY <1>4, <1>6, <1>8, <1>9

(* A frame with a byte of a region that is not cut, and one of another     *)
(* region, has the beginning or the end of the first one in its middle.    *)
LEMMA TwoRegions ==
  ASSUME NEW region \in [addr : Nat, len : Nat, available : BOOLEAN],
         NEW other \in [addr : Nat, len : Nat, available : BOOLEAN],
         \/ region.addr + region.len <= other.addr
         \/ other.addr + other.len <= region.addr,
         ~IsCut(region), NEW a \in BytesOf(region),
         FrameOf(a) \in Touched(other.addr, other.addr + other.len - 1)
  PROVE  BeginsOrEndsIn(region, FrameOf(a))
<1> DEFINE f == FrameOf(a)
<1>1. /\ region.addr \in Nat /\ region.len \in Nat /\ other.addr \in Nat /\ other.len \in Nat
      /\ a \in Nat /\ region.addr <= a /\ a < region.addr + region.len
  BY DEF BytesOf
<1>2. a < PhysicalLimit
  BY <1>1, PmmLimit DEF IsCut
<1>3. f \in FrameNumbers /\ f * FrameSize <= a /\ a < f * FrameSize + FrameSize
  BY <1>1, <1>2, FrameOfType
<1>4. f * FrameSize \in Nat /\ (f + 1) * FrameSize = f * FrameSize + FrameSize
  BY <1>3, FrameBounds
<1>5. f * FrameSize <= other.addr + other.len - 1 /\ other.addr < f * FrameSize + FrameSize
  BY <1>4 DEF Touched
<1> HIDE DEF f
<1>6. CASE region.addr + region.len <= other.addr
  <2>1. f * FrameSize < region.addr + region.len /\ region.addr + region.len < (f + 1) * FrameSize
    BY <1>1, <1>3, <1>4, <1>5, <1>6, PmmLimit
  <2> QED
    BY <2>1 DEF BeginsOrEndsIn, f
<1>7. CASE other.addr + other.len <= region.addr
  <2>1. f * FrameSize < region.addr /\ region.addr < (f + 1) * FrameSize
    BY <1>1, <1>3, <1>4, <1>5, <1>7, PmmLimit
  <2> QED
    BY <2>1 DEF BeginsOrEndsIn, f
<1> QED
  BY <1>6, <1>7

(* It offers every whole frame of a region that lies behind the kernel.    *)
LEMMA RegionAll ==
  ASSUME NEW region \in [addr : Nat, len : Nat, available : BOOLEAN], NEW f \in FrameNumbers,
         region.len < PhysicalLimit \div 2,
         region.addr <= f * FrameSize, (f + 1) * FrameSize <= region.addr + region.len,
         f > e_placement \div FrameSize
  PROVE  \E b \in AddressesOf(region) : IsUsable(b) /\ FrameOf(b) = f
<1>1. /\ region.addr \in Nat /\ region.len \in Nat
      /\ f \in Nat /\ f * FrameSize \in Nat
      /\ f * FrameSize + FrameSize <= PhysicalLimit
      /\ f * FrameSize + FrameSize <= region.addr + region.len
  BY FrameBounds
<1>2. PICK i \in Nat : /\ f * FrameSize <= region.addr + i * FrameSize
                       /\ region.addr + i * FrameSize < f * FrameSize + FrameSize
  BY <1>1, NextAligned
<1> DEFINE b == region.addr + i * FrameSize
<1>3. i * FrameSize \in Nat /\ b \in Nat /\ b < PhysicalLimit /\ b % PhysicalLimit = b
  <2>1. i * FrameSize \in Nat
    BY PmmLimit
  <2> QED
    BY <1>1, <1>2, <2>1, PmmLimit
<1>4. i * FrameSize < AsInt(region.len)
  <2>1. AsInt(region.len) = region.len
    BY <1>1, AsIntIs
  <2> QED
    BY <1>1, <1>2, <1>3, <2>1, PmmLimit
<1>5. i \in FrameNumbers
  <2>1. ~(PhysicalLimit \div FrameSize <= i)
    BY <1>1, <1>3, PmmLimit, Products
  <2> QED
    BY <2>1, PmmLimit DEF FrameNumbers
<1>6. b \in AddressesOf(region)
  BY <1>3, <1>4, <1>5 DEF AddressesOf
<1>7. FrameOf(b) = f
  BY <1>1, <1>2, <1>3, FrameOfIs
<1>8. IsUsable(b)
  <2>1. e_placement \in Nat /\ e_placement \in Int /\ FrameSize \in Nat \ {0}
    BY PmmAssumption
  <2>2. /\ e_placement \div FrameSize \in Int
        /\ e_placement % FrameSize \in 0..FrameSize - 1
        /\ e_placement = (e_placement \div FrameSize) * FrameSize + (e_placement % FrameSize)
    BY <2>1, Division
  <2>3. (e_placement \div FrameSize) * FrameSize + FrameSize <= f * FrameSize
    BY <1>1, <2>2, PmmLimit, Products
  <2>4. (e_placement \div FrameSize) * FrameSize \in Int
    BY <2>2, PmmLimit, Products
  <2> QED
    BY <1>1, <1>2, <1>3, <2>1, <2>2, <2>3, <2>4, PmmLimit DEF IsUsable
<1> QED
  BY <1>6, <1>7, <1>8

(* The loop over a module comes by every frame that the module touches,    *)
(* and by no frame behind the next one.                                    *)
LEMMA ModuleAll ==
  ASSUME NEW module \in [mod_start : Nat, mod_end : Nat],
         NEW f \in Touched(module.mod_start, module.mod_end - 1)
  PROVE  f \in FramesOfModule(module)
<1>1. /\ f \in FrameNumbers /\ f * FrameSize <= module.mod_end - 1
      /\ module.mod_start < (f + 1) * FrameSize
  BY DEF Touched
<1>2. /\ module.mod_start \in Nat /\ module.mod_end \in Nat
      /\ f \in Nat /\ f * FrameSize \in Nat
      /\ (f + 1) * FrameSize = f * FrameSize + FrameSize
  BY <1>1, FrameBounds
<1>3. \E i \in Nat : /\ f * FrameSize <= module.mod_start + i * FrameSize
                     /\ module.mod_start + i * FrameSize < f * FrameSize + FrameSize
  <2>1. CASE module.mod_start <= f * FrameSize
    BY <1>2, <2>1, NextAligned
  <2>2. CASE f * FrameSize < module.mod_start
    <3>1. 0 * FrameSize = 0
      BY PmmLimit
    <3>2. /\ f * FrameSize <= module.mod_start + 0 * FrameSize
          /\ module.mod_start + 0 * FrameSize < f * FrameSize + FrameSize
      BY <1>1, <1>2, <2>2, <3>1
    <3> QED
      BY <3>2
  <2> QED
    BY <1>2, <2>1, <2>2
<1>4. PICK i \in Nat : /\ f * FrameSize <= module.mod_start + i * FrameSize
                       /\ module.mod_start + i * FrameSize < f * FrameSize + FrameSize
  BY <1>3
<1> DEFINE b == module.mod_start + i * FrameSize
<1>5. i * FrameSize \in Nat /\ b \in Nat
  BY <1>2, PmmLimit
<1>6. b \in module.mod_start..module.mod_end + FrameSize - 2
  BY <1>1, <1>2, <1>4, <1>5, PmmLimit
<1>7. (b - module.mod_start) % FrameSize = 0
  <2> DEFINE d == b - module.mod_start
  <2>1. d \in Int /\ d = i * FrameSize + 0 /\ i \in Int /\ 0 < FrameSize
    BY <1>2, <1>5, PmmLimit
  <2> HIDE DEF d
  <2>2. d % FrameSize = 0
    BY <2>1, PmmLimit, Quotient
  <2> QED
    BY <2>2 DEF d
<1>8. FrameOf(b) = f
  BY <1>1, <1>2, <1>4, <1>5, FrameOfIs
<1> QED
  BY <1>6, <1>7, <1>8 DEF FramesOfModule

LEMMA ModuleOnly ==
  ASSUME NEW module \in [mod_start : Nat, mod_end : Nat],
         module.mod_end + FrameSize <= PhysicalLimit,
         NEW f \in FramesOfModule(module)
  PROVE  f \in Touched(module.mod_start, module.mod_end + FrameSize - 2)
<1>1. PICK b \in module.mod_start..module.mod_end + FrameSize - 2 : f = FrameOf(b)
  BY DEF FramesOfModule
<1>2. /\ module.mod_start \in Nat /\ module.mod_end \in Nat
      /\ b \in Nat /\ b < PhysicalLimit
  BY <1>1, PmmLimit
<1>3. /\ f \in FrameNumbers /\ f * FrameSize <= b
      /\ b < f * FrameSize + FrameSize
  BY <1>1, <1>2, FrameOfType
<1>4. f * FrameSize \in Nat /\ (f + 1) * FrameSize = f * FrameSize + FrameSize
  BY <1>3, FrameBounds
<1> QED
  BY <1>1, <1>2, <1>3, <1>4, PmmLimit DEF Touched

-----------------------------------------------------------------------------
(* The boot loader's lists have their types, and frame zero is never       *)
(* offered.                                                                *)
PmmType ==
  /\ memoryMap \in MemoryMaps
  /\ memoryMap \in Seq([addr : Nat, len : Nat, available : BOOLEAN])
  /\ modules \in Seq([mod_start : Nat, mod_end : Nat])
  /\ \A k \in DOMAIN modules : modules[k].mod_end + FrameSize <= PhysicalLimit
  /\ phase \in {"map", "modules", "running"}
  /\ next \in Nat \ {0}
  /\ free \subseteq FrameNumbers \ {0} /\ given \subseteq FrameNumbers \ {0}

(* The loop over the modules has come by module k.                         *)
IsBlocked(k) == phase = "running" \/ (phase = "modules" /\ k < next)

(* What has been blocked stays away from who asks for frames.              *)
BlockedStay ==
  /\ phase # "running" => given = {}
  /\ phase # "map" => \A f \in free \cup given : f \notin KernelFrames
  /\ \A k \in DOMAIN modules :
       IsBlocked(k) => \A f \in free \cup given : f \notin FramesOfModule(modules[k])

(* A whole frame of an available region, behind the kernel and not of a    *)
(* module: the premise of MemoryIsOffered.                                 *)
IsWhole(k, f) ==
  /\ memoryMap[k].available /\ memoryMap[k].len < PhysicalLimit \div 2
  /\ memoryMap[k].addr <= f * FrameSize
  /\ (f + 1) * FrameSize <= memoryMap[k].addr + memoryMap[k].len
  /\ f > e_placement \div FrameSize
  /\ \A j \in DOMAIN modules :
       f \notin Touched(modules[j].mod_start, modules[j].mod_end + FrameSize - 2)

(* What MemoryIsOffered promises, of the regions that have been scanned.   *)
OfferedSoFar ==
  \A k \in DOMAIN memoryMap, f \in FrameNumbers :
    (phase = "map" => k < next) /\ IsWhole(k, f) => f \in free \cup given

PmmInv == PmmType /\ BlockedStay /\ OfferedIsMemory /\ OfferedSoFar

(* The invariant: at the start, then over every step.                      *)
LEMMA PmmInitInv ==
  ASSUME PmmInit
  PROVE  PmmInv
<1>1. PmmType
  BY PmmAssumption DEF PmmInit, PmmType, PhysicalLimit
<1>2. BlockedStay
  BY DEF PmmInit, BlockedStay, IsBlocked
<1>3. OfferedIsMemory
  BY DEF PmmInit, OfferedIsMemory
<1>4. OfferedSoFar
  <2>1. ASSUME NEW k \in DOMAIN memoryMap
        PROVE  ~(phase = "map" => k < next)
    BY <1>1 DEF PmmInit, PmmType
  <2> QED
    BY <2>1 DEF OfferedSoFar
<1> QED
  BY <1>1, <1>2, <1>3, <1>4 DEF PmmInv

LEMMA ElementType ==
  ASSUME NEW S, NEW u \in Seq(S), NEW k \in DOMAIN u
  PROVE  u[k] \in S /\ k \in Nat
OBVIOUS

LEMMA RegionType ==
  ASSUME PmmType, NEW k \in DOMAIN memoryMap
  PROVE  memoryMap[k] \in [addr : Nat, len : Nat, available : BOOLEAN] /\ k \in Nat
<1>1. memoryMap \in Seq([addr : Nat, len : Nat, available : BOOLEAN])
  BY DEF PmmType
<1> QED
  BY <1>1, ElementType

LEMMA RegionsApart ==
  ASSUME PmmType, NEW j \in DOMAIN memoryMap, NEW k \in DOMAIN memoryMap, j # k
  PROVE  \/ memoryMap[j].addr + memoryMap[j].len <= memoryMap[k].addr
         \/ memoryMap[k].addr + memoryMap[k].len <= memoryMap[j].addr
BY PmmAssumption DEF PmmType

LEMMA ModuleType ==
  ASSUME PmmType, NEW k \in DOMAIN modules
  PROVE  /\ modules[k] \in [mod_start : Nat, mod_end : Nat] /\ k \in Nat
         /\ modules[k].mod_end + FrameSize <= PhysicalLimit
<1>1. modules \in Seq([mod_start : Nat, mod_end : Nat])
  BY DEF PmmType
<1> QED
  BY <1>1, ElementType DEF PmmType

(* IsWhole speaks of what the boot loader passed, which does not change.   *)
LEMMA WholeStays ==
  ASSUME UNCHANGED <<memoryMap, modules>>, NEW k, NEW f
  PROVE  IsWhole(k, f)' <=> IsWhole(k, f)
BY DEF IsWhole

LEMMA FreeRegionInv ==
  ASSUME PmmInv, FreeRegion
  PROVE  PmmInv'
<1> DEFINE region == memoryMap[next]
           offered == {FrameOf(a) : a \in {b \in AddressesOf(region) : IsUsable(b)}}
<1>1. /\ phase = "map" /\ phase' = "map" /\ next \in DOMAIN memoryMap
      /\ memoryMap' = memoryMap /\ modules' = modules /\ given' = given /\ given = {}
      /\ free' = (IF region.available THEN free \cup offered ELSE free)
      /\ next' = next + 1 /\ next \in Nat \ {0}
  BY DEF FreeRegion, PmmInv, PmmType, BlockedStay
<1>2. PmmType
  BY DEF PmmInv
<1>3. region \in [addr : Nat, len : Nat, available : BOOLEAN]
  BY <1>1, <1>2, RegionType
<1>4. ASSUME NEW f \in offered
      PROVE  f \in FrameNumbers \ {0} /\ \E a \in BytesOf(region) : FrameOf(a) = f
  BY <1>3, RegionOnly
<1>5. ASSUME NEW f \in FrameNumbers, IsWhole(next, f)
      PROVE  f \in offered
  BY <1>3, <1>5, RegionAll DEF IsWhole
<1> HIDE DEF region, offered
<1>6. PmmType'
  BY <1>1, <1>2, <1>4 DEF PmmType
<1>7. BlockedStay'
  BY <1>1 DEF PmmInv, BlockedStay, IsBlocked
<1>8. OfferedIsMemory'
  <2>1. ASSUME region.available, NEW f \in offered
        PROVE  /\ \E a \in BytesOf(region) : FrameOf(a) = f
               /\ \/ IsCut(region) \/ BeginsOrEndsIn(region, f)
                  \/ \A j \in DOMAIN memoryMap :
                       ~memoryMap[j].available =>
                         f \notin Touched(memoryMap[j].addr,
                                         memoryMap[j].addr + memoryMap[j].len - 1)
    <3>1. PICK a \in BytesOf(region) : FrameOf(a) = f
      BY <1>4, <2>1
    <3>2. ASSUME ~IsCut(region), NEW j \in DOMAIN memoryMap, ~memoryMap[j].available,
                 f \in Touched(memoryMap[j].addr, memoryMap[j].addr + memoryMap[j].len - 1)
          PROVE  BeginsOrEndsIn(region, f)
      <4>1. j # next
        BY <2>1, <3>2 DEF region
      <4>2. \/ region.addr + region.len <= memoryMap[j].addr
            \/ memoryMap[j].addr + memoryMap[j].len <= region.addr
        BY <1>1, <1>2, <4>1, RegionsApart DEF region
      <4>3. memoryMap[j] \in [addr : Nat, len : Nat, available : BOOLEAN]
        BY <1>2, RegionType
      <4> QED
        BY <1>3, <3>1, <3>2, <4>2, <4>3, TwoRegions
    <3> QED
      BY <3>1, <3>2
  <2>2. ASSUME NEW f \in free'
        PROVE  f \in free \/ (region.available /\ f \in offered)
    BY <1>1
  <2> QED
    BY <1>1, <2>1, <2>2 DEF PmmInv, OfferedIsMemory, region
<1>9. OfferedSoFar'
  <2>1. SUFFICES ASSUME NEW k \in DOMAIN memoryMap, NEW f \in FrameNumbers,
                        k < next', IsWhole(k, f)
                 PROVE  f \in free' \cup given'
    BY <1>1, WholeStays DEF OfferedSoFar
  <2>2. CASE k < next
    BY <1>1, <2>1, <2>2 DEF PmmInv, OfferedSoFar
  <2>3. CASE k = next
    BY <1>1, <1>5, <2>1, <2>3 DEF IsWhole, region
  <2> QED
    BY <1>1, <1>2, <2>1, <2>2, <2>3, RegionType
<1> QED
  BY <1>6, <1>7, <1>8, <1>9 DEF PmmInv

LEMMA BlockKernelInv ==
  ASSUME PmmInv, BlockKernel
  PROVE  PmmInv'
<1>1. /\ phase = "map" /\ phase' = "modules" /\ next > Len(memoryMap)
      /\ memoryMap' = memoryMap /\ modules' = modules /\ given' = given /\ given = {}
      /\ free' = free \ KernelFrames /\ next' = 1
  BY DEF BlockKernel, PmmInv, BlockedStay
<1>2. PmmType
  BY DEF PmmInv
<1>3. PmmType'
  BY <1>1, <1>2 DEF PmmType
<1>4. BlockedStay'
  <2>1. \A k \in DOMAIN modules : ~(k < 1)
    BY <1>2 DEF PmmType
  <2> QED
    BY <1>1, <2>1 DEF BlockedStay, IsBlocked
<1>5. OfferedIsMemory'
  BY <1>1 DEF PmmInv, OfferedIsMemory
<1>6. OfferedSoFar'
  <2>1. SUFFICES ASSUME NEW k \in DOMAIN memoryMap, NEW f \in FrameNumbers, IsWhole(k, f)
                 PROVE  f \in free'
    BY <1>1, WholeStays DEF OfferedSoFar
  <2>2. k < next
    BY <1>1, <1>2 DEF PmmType
  <2>3. f \in free
    BY <1>1, <2>1, <2>2 DEF PmmInv, OfferedSoFar
  <2>4. f \notin KernelFrames
    <3>1. f \in Nat /\ e_placement \div FrameSize \in Int
      BY FrameBounds, PmmLimit, PmmAssumption
    <3> QED
      BY <2>1, <3>1 DEF IsWhole, KernelFrames
  <2> QED
    BY <1>1, <2>3, <2>4
<1> QED
  BY <1>3, <1>4, <1>5, <1>6 DEF PmmInv

LEMMA BlockModuleInv ==
  ASSUME PmmInv, BlockModule
  PROVE  PmmInv'
<1>1. /\ phase = "modules" /\ phase' = "modules" /\ next \in DOMAIN modules
      /\ memoryMap' = memoryMap /\ modules' = modules /\ given' = given /\ given = {}
      /\ free' = free \ FramesOfModule(modules[next]) /\ next' = next + 1 /\ next \in Nat \ {0}
  BY DEF BlockModule, PmmInv, PmmType, BlockedStay
<1>2. PmmType
  BY DEF PmmInv
<1>3. PmmType'
  BY <1>1, <1>2 DEF PmmType
<1>4. BlockedStay'
  <2>1. ASSUME NEW k \in DOMAIN modules, k < next + 1, NEW f \in free'
        PROVE  f \notin FramesOfModule(modules[k])
    <3>1. k = next \/ k < next
      BY <1>1, <1>2, <2>1, ModuleType
    <3> QED
      BY <1>1, <2>1, <3>1 DEF PmmInv, BlockedStay, IsBlocked
  <2>2. \A f \in free' : f \notin KernelFrames
    BY <1>1 DEF PmmInv, BlockedStay
  <2> QED
    BY <1>1, <2>1, <2>2 DEF BlockedStay, IsBlocked
<1>5. OfferedIsMemory'
  BY <1>1 DEF PmmInv, OfferedIsMemory
<1>6. OfferedSoFar'
  <2>1. SUFFICES ASSUME NEW k \in DOMAIN memoryMap, NEW f \in FrameNumbers, IsWhole(k, f)
                 PROVE  f \in free'
    BY <1>1, WholeStays DEF OfferedSoFar
  <2>2. f \in free
    BY <1>1, <2>1 DEF PmmInv, OfferedSoFar
  <2>3. f \notin FramesOfModule(modules[next])
    BY <1>1, <1>2, <2>1, ModuleType, ModuleOnly DEF IsWhole
  <2> QED
    BY <1>1, <2>2, <2>3
<1> QED
  BY <1>3, <1>4, <1>5, <1>6 DEF PmmInv

LEMMA StartInv ==
  ASSUME PmmInv, Start
  PROVE  PmmInv'
<1>1. /\ phase = "modules" /\ phase' = "running" /\ next > Len(modules)
      /\ memoryMap' = memoryMap /\ modules' = modules /\ given' = given /\ given = {}
      /\ free' = free /\ next' = next
  BY DEF Start, PmmInv, BlockedStay
<1>2. PmmType
  BY DEF PmmInv
<1>3. PmmType'
  BY <1>1, <1>2 DEF PmmType
<1>4. BlockedStay'
  <2>1. \A k \in DOMAIN modules : k < next
    BY <1>1, <1>2 DEF PmmType
  <2> QED
    BY <1>1, <2>1 DEF PmmInv, BlockedStay, IsBlocked
<1>5. OfferedIsMemory'
  BY <1>1 DEF PmmInv, OfferedIsMemory
<1>6. OfferedSoFar'
  BY <1>1, WholeStays DEF PmmInv, OfferedSoFar
<1> QED
  BY <1>3, <1>4, <1>5, <1>6 DEF PmmInv

(* A frame is free or given, before and after.                             *)
LEMMA SameFramesInv ==
  ASSUME PmmInv, phase = "running", UNCHANGED <<memoryMap, modules, phase, next>>,
         free' \cup given' = free \cup given
  PROVE  PmmInv'
<1>1. free' \subseteq free \cup given /\ given' \subseteq free \cup given
  OBVIOUS
<1>2. PmmType'
  BY <1>1 DEF PmmInv, PmmType
<1>3. BlockedStay'
  BY <1>1 DEF PmmInv, BlockedStay, IsBlocked
<1>4. OfferedIsMemory'
  BY <1>1 DEF PmmInv, OfferedIsMemory
<1>5. OfferedSoFar'
  BY WholeStays DEF PmmInv, OfferedSoFar
<1> QED
  BY <1>2, <1>3, <1>4, <1>5 DEF PmmInv

(* The first free frame is one, and its address is not zero.               *)
LEMMA FoundFree ==
  ASSUME PmmType, free # {}
  PROVE  MpFindFreeFrame \in free /\ MpFindFreeFrame * FrameSize # 0
<1>1. free \in SUBSET Nat /\ \A f \in free : f \in Nat /\ f # 0
  BY PmmLimit DEF PmmType, FrameNumbers
<1>2. \E f \in free : \A g \in free : f <= g
  BY <1>1, LeastOf
<1>3. MpFindFreeFrame \in free
  BY <1>2 DEF MpFindFreeFrame
<1>4. MpFindFreeFrame \in Nat /\ MpFindFreeFrame # 0
  BY <1>1, <1>3
<1>5. FrameSize <= MpFindFreeFrame * FrameSize
  BY <1>4, PmmLimit, Products
<1> QED
  BY <1>3, <1>5, PmmLimit

LEMMA MpRequestFrameInv ==
  ASSUME PmmInv, MpRequestFrame
  PROVE  PmmInv' /\ (result' = 0 => free = {})
<1>1. phase = "running" /\ UNCHANGED <<memoryMap, modules, phase, next>>
  BY DEF MpRequestFrame
<1>2. CASE free = {}
  <2>1. free' \cup given' = free \cup given
    BY <1>2 DEF MpRequestFrame
  <2> QED
    BY <1>1, <1>2, <2>1, SameFramesInv
<1>3. CASE free # {}
  <2>1. MpFindFreeFrame \in free /\ MpFindFreeFrame * FrameSize # 0
    BY <1>3, FoundFree DEF PmmInv
  <2>2. /\ result' = MpFindFreeFrame * FrameSize
        /\ free' = free \ {MpFindFreeFrame} /\ given' = given \cup {MpFindFreeFrame}
    BY <1>3, <2>1 DEF MpRequestFrame
  <2>3. free' \cup given' = free \cup given
    BY <2>1, <2>2
  <2> QED
    BY <1>1, <2>1, <2>2, <2>3, SameFramesInv
<1> QED
  BY <1>2, <1>3

LEMMA PmmNextInv ==
  ASSUME PmmInv, [PmmNext]_pmmVars
  PROVE  PmmInv'
<1>1. CASE FreeRegion
  BY <1>1, FreeRegionInv
<1>2. CASE BlockKernel
  BY <1>2, BlockKernelInv
<1>3. CASE BlockModule
  BY <1>3, BlockModuleInv
<1>4. CASE Start
  BY <1>4, StartInv
<1>5. CASE MpRequestFrame
  BY <1>5, MpRequestFrameInv
<1>6. ASSUME NEW f \in given, MpClearFrame(f)
      PROVE  PmmInv'
  <2>1. free' \cup given' = free \cup given
    BY <1>6 DEF MpClearFrame
  <2> QED
    BY <1>6, <2>1, SameFramesInv DEF MpClearFrame
<1>7. CASE UNCHANGED pmmVars
  <2>1. PmmType'
    BY <1>7 DEF pmmVars, PmmInv, PmmType
  <2>2. BlockedStay'
    BY <1>7 DEF pmmVars, PmmInv, BlockedStay, IsBlocked
  <2>3. OfferedIsMemory'
    BY <1>7 DEF pmmVars, PmmInv, OfferedIsMemory
  <2>4. OfferedSoFar'
    BY <1>7, WholeStays DEF pmmVars, PmmInv, OfferedSoFar
  <2> QED
    BY <2>1, <2>2, <2>3, <2>4 DEF PmmInv
<1> QED
  BY <1>1, <1>2, <1>3, <1>4, <1>5, <1>6, <1>7 DEF PmmNext

LEMMA PmmInvAlways == PmmSpec => []PmmInv
<1>1. PmmInit => PmmInv
  BY PmmInitInv
<1>2. PmmInv /\ [PmmNext]_pmmVars => PmmInv'
  BY PmmNextInv
<1> QED
  BY <1>1, <1>2, PTL DEF PmmSpec

(***************************************************************************)
(* Once the allocator runs, the frames of the kernel and of the modules    *)
(* are neither free nor given away, under every sequence of requests and   *)
(* of releases of frames that were given (mm/pmm.c).                       *)
(***************************************************************************)
THEOREM BlockedFramesStay == PmmSpec => []KernelAndModulesStay
<1>1. ASSUME PmmInv
      PROVE  KernelAndModulesStay
  <2>1. SUFFICES ASSUME phase = "running", NEW f \in free \cup given, NEW k \in DOMAIN modules,
                        f \in Touched(modules[k].mod_start, modules[k].mod_end - 1)
                 PROVE  FALSE
    BY <1>1 DEF KernelAndModulesStay, PmmInv, BlockedStay
  <2>2. f \in FramesOfModule(modules[k])
    BY <1>1, <2>1, ModuleType, ModuleAll DEF PmmInv
  <2> QED
    BY <1>1, <2>1, <2>2 DEF PmmInv, BlockedStay, IsBlocked
<1> QED
  BY <1>1, PmmInvAlways, PTL

(***************************************************************************)
(* Every frame that is free or given is that of a byte of an available     *)
(* region, its address cut to the bits of a physical one; bytes of         *)
(* reserved regions it has only where that region begins or ends in its    *)
(* middle, or is cut; and once the allocator runs, every whole frame of an *)
(* available region of less than half the address space, behind the kernel *)
(* and not at a module, is free or given (the scan of the memory map in    *)
(* mm/pmm.c, wherever regions begin and end).                              *)
(***************************************************************************)
THEOREM OfferedExactly == PmmSpec => []FramesAreMemory
<1>1. ASSUME PmmInv
      PROVE  FramesAreMemory
  BY <1>1 DEF FramesAreMemory, MemoryIsOffered, PmmInv, OfferedSoFar, IsWhole
<1> QED
  BY <1>1, PmmInvAlways, PTL

(***************************************************************************)
(* MpRequestFrame returns zero only when no frame is free: frame zero is   *)
(* never among the free ones, so the result that means failure is never a  *)
(* frame (mm/pmm.c).                                                       *)
(***************************************************************************)
THEOREM ZeroIsNoFrame == PmmSpec => ZeroMeansNone
<1>1. PmmInv /\ [PmmNext]_pmmVars => [MpRequestFrame /\ result' = 0 => free = {}]_pmmVars
  BY MpRequestFrameInv
<1> QED
  BY <1>1, PmmInvAlways, PTL DEF PmmSpec, ZeroMeansNone

-----------------------------------------------------------------------------
(***************************************************************************)
(* MapSearch: the mappings of a user heap.                                 *)
(***************************************************************************)
(* A set with one more element has twice as many subsets.                  *)
LEMMA PowerDoubles ==
  ASSUME NEW n \in Nat
  PROVE  2^(n + 1) = 2^n + 2^n
<1> DEFINE without == SUBSET (1..n)
           with    == {T \cup {n + 1} : T \in SUBSET (1..n)}
           f       == [T \in without |-> T \cup {n + 1}]
           g       == [T \in with |-> T \ {n + 1}]
<1>1. /\ IsFiniteSet(1..n) /\ Cardinality(1..n) = n
      /\ IsFiniteSet(1..n + 1) /\ Cardinality(1..n + 1) = n + 1
  <2>1. IsFiniteSet(1..n) /\ Cardinality(1..n) = n
    BY FS_Interval
  <2>2. n + 1 \in Nat
    OBVIOUS
  <2>3. IsFiniteSet(1..n + 1) /\ Cardinality(1..n + 1) = n + 1
    BY <2>2, FS_Interval
  <2> QED
    BY <2>1, <2>3
<1>2. /\ IsFiniteSet(without) /\ Cardinality(without) = 2^n
      /\ IsFiniteSet(SUBSET (1..n + 1)) /\ Cardinality(SUBSET (1..n + 1)) = 2^(n + 1)
  BY <1>1, FS_SUBSET
<1>3. SUBSET (1..n + 1) = without \cup with
  <2>1. 1..n + 1 = 1..n \cup {n + 1}
    OBVIOUS
  <2>2. ASSUME NEW T \in SUBSET (1..n + 1), n + 1 \in T
        PROVE  T \in with
    <3>1. T = (T \ {n + 1}) \cup {n + 1} /\ T \ {n + 1} \in SUBSET (1..n)
      BY <2>1, <2>2
    <3> QED
      BY <3>1
  <2>3. ASSUME NEW T \in SUBSET (1..n + 1), n + 1 \notin T
        PROVE  T \in without
    BY <2>1, <2>3
  <2>4. ASSUME NEW T \in without \cup with
        PROVE  T \in SUBSET (1..n + 1)
    BY <2>1, <2>4
  <2> QED
    BY <2>2, <2>3, <2>4
<1>4. n + 1 \notin 1..n
  OBVIOUS
<1>5. without \cap with = {}
  BY <1>4
<1>6. f \in Surjection(without, with)
  <2>1. f \in [without -> with] /\ \A T \in with : \E V \in without : f[V] = T
    OBVIOUS
  <2> QED
    BY <2>1 DEF Surjection
<1>7. g \in Surjection(with, without)
  <2>1. ASSUME NEW T \in without
        PROVE  T \cup {n + 1} \in with /\ (T \cup {n + 1}) \ {n + 1} = T
    BY <1>4
  <2>2. g \in [with -> without]
    <3>1. \A T \in with : T \ {n + 1} \in without
      BY <2>1
    <3> QED
      BY <3>1
  <2>3. \A T \in without : \E V \in with : g[V] = T
    BY <2>1
  <2> QED
    BY <2>2, <2>3 DEF Surjection
<1> HIDE DEF without, with, f, g
<1>8. IsFiniteSet(with) /\ Cardinality(with) = Cardinality(without)
  <2>1. IsFiniteSet(with) /\ Cardinality(with) <= Cardinality(without)
    BY <1>2, <1>6, FS_Surjection
  <2>2. Cardinality(without) <= Cardinality(with)
    BY <1>7, <2>1, FS_Surjection
  <2> QED
    BY <1>2, <2>1, <2>2, FS_CardinalityType
<1>9. Cardinality(without \cup with) = Cardinality(without) + Cardinality(with)
  <2>1. Cardinality(without \cup with)
          = Cardinality(without) + Cardinality(with) - Cardinality(without \cap with)
    BY <1>2, <1>8, FS_Union
  <2>2. Cardinality(without \cap with) = 0
    BY <1>5, FS_EmptySet
  <2>3. Cardinality(without) \in Nat /\ Cardinality(with) \in Nat
    BY <1>2, <1>8, FS_CardinalityType
  <2> QED
    BY <2>1, <2>2, <2>3
<1>10. Cardinality(SUBSET (1..n + 1)) = 2^n + 2^n
  BY <1>2, <1>3, <1>8, <1>9
<1> QED
  BY <1>2, <1>10

-----------------------------------------------------------------------------
(* The address space in pages: a power of two of bytes of which the upper  *)
(* half is the kernel's.                                                   *)
AddressPages == AddressLimit \div PageSize

LEMMA SearchLimits ==
  /\ AddressLimit \in Nat \ {0} /\ KERNEL_HEAP_BASE \in Nat \ {0}
  /\ AddressLimit = KERNEL_HEAP_BASE + KERNEL_HEAP_BASE
  /\ AddressLimit \div 2 = KERNEL_HEAP_BASE
  /\ PageSize \in Nat \ {0} /\ AddressPages \in Nat \ {0}
  /\ AddressLimit = AddressPages * PageSize
  /\ USER_HEAP_BASE \in Nat \ {0} /\ USER_HEAP_BASE < KERNEL_HEAP_BASE
  /\ USER_HEAP_BASE % PageSize = 0 /\ PageSize <= USER_HEAP_BASE
<1>1. AddressBits - 1 \in Nat /\ (AddressBits - 1) + 1 = AddressBits
  BY MapSearchAssumption
<1>2. AddressLimit \in Nat \ {0} /\ KERNEL_HEAP_BASE \in Nat \ {0}
  BY <1>1, PowerType, MapSearchAssumption DEF AddressLimit, KERNEL_HEAP_BASE
<1>3. AddressLimit = KERNEL_HEAP_BASE + KERNEL_HEAP_BASE
  BY <1>1, PowerDoubles DEF AddressLimit, KERNEL_HEAP_BASE
<1>4. AddressLimit \div 2 = KERNEL_HEAP_BASE
  BY <1>2, <1>3
<1>5. /\ PageSize \in Nat \ {0} /\ AddressLimit % PageSize = 0
      /\ USER_HEAP_BASE \in Nat \ {0} /\ USER_HEAP_BASE < KERNEL_HEAP_BASE
      /\ USER_HEAP_BASE % PageSize = 0
  BY <1>2, MapSearchAssumption
<1>6. AddressPages \in Int /\ AddressLimit = AddressPages * PageSize
  BY <1>2, <1>5, Division DEF AddressPages
<1>7. AddressPages > 0
  <2>1. ASSUME AddressPages <= 0
        PROVE  AddressPages * PageSize <= 0 * PageSize /\ 0 * PageSize = 0
    BY <1>5, <1>6, <2>1, Products
  <2> QED
    BY <1>2, <1>5, <1>6, <2>1
<1>8. PageSize <= USER_HEAP_BASE
  <2>1. USER_HEAP_BASE < PageSize => USER_HEAP_BASE % PageSize = USER_HEAP_BASE
    BY <1>5
  <2> QED
    BY <1>5, <2>1
<1> QED
  BY <1>2, <1>3, <1>4, <1>5, <1>6, <1>7, <1>8

(* What the searches that go upwards find.                                 *)
LEMMA LowestIs ==
  ASSUME NEW S \in SUBSET Nat, S # {}
  PROVE  LowestOf(S) \in S /\ \A i \in S : LowestOf(S) <= i
<1>1. \E i \in S : \A j \in S : i <= j
  BY LeastOf
<1> QED
  BY <1>1 DEF LowestOf

(* An address below the limit is in the user's half if its page is.        *)
LEMMA PageOfUser ==
  ASSUME NEW a \in Nat, a < AddressLimit, PageOf(a) \in UserPages
  PROVE  a < KERNEL_HEAP_BASE
<1>1. a % AddressLimit = a /\ KERNEL_HEAP_BASE % AddressLimit = KERNEL_HEAP_BASE
  BY SearchLimits
<1>2. PageOf(a) = a \div PageSize /\ PageOf(KERNEL_HEAP_BASE) = KERNEL_HEAP_BASE \div PageSize
  BY <1>1 DEF PageOf
<1>3. /\ a \div PageSize \in Int /\ a % PageSize \in 0..PageSize - 1
      /\ a = (a \div PageSize) * PageSize + (a % PageSize)
  BY SearchLimits, Division
<1> DEFINE base == KERNEL_HEAP_BASE
<1>4. base \in Nat
  BY SearchLimits
<1>5. /\ base \div PageSize \in Int /\ base % PageSize \in 0..PageSize - 1
      /\ base = (base \div PageSize) * PageSize + (base % PageSize)
  BY <1>4, SearchLimits, Division
<1>6. a \div PageSize < base \div PageSize
  BY <1>2, <1>3, <1>5 DEF UserPages
<1>7. (a \div PageSize) * PageSize + PageSize <= (base \div PageSize) * PageSize
  BY <1>3, <1>5, <1>6, SearchLimits, Products
<1>8. (a \div PageSize) * PageSize \in Int /\ (base \div PageSize) * PageSize \in Int
  BY <1>3, <1>5, SearchLimits, Products
<1> QED
  BY <1>3, <1>5, <1>7, <1>8, SearchLimits

(* The address q pages and r bytes on, as it is after wrapping.            *)
LEMMA WrappedPage ==
  ASSUME NEW q \in Nat, NEW r \in 0..PageSize - 1
  PROVE  /\ (q * PageSize + r) % AddressLimit = (q % AddressPages) * PageSize + r
         /\ PageOf(q * PageSize + r) = q % AddressPages
<1> DEFINE a == q * PageSize + r
           u == q \div AddressPages
           v == q % AddressPages
<1>1. /\ u \in Int /\ v \in 0..AddressPages - 1
      /\ q = u * AddressPages + v
  BY SearchLimits, Division
<1> HIDE DEF u, v
<1>2. q * PageSize = (u * AddressPages) * PageSize + v * PageSize
  BY <1>1, SearchLimits
<1>3. (u * AddressPages) * PageSize = u * AddressLimit
  BY <1>1, SearchLimits
<1>4. v * PageSize + PageSize <= AddressPages * PageSize /\ 0 * PageSize <= v * PageSize
  BY <1>1, SearchLimits, Products
<1>5. /\ q * PageSize \in Int /\ u * AddressLimit \in Int /\ v * PageSize \in Int
      /\ 0 * PageSize = 0 /\ r \in Int
  BY <1>1, SearchLimits, Products
<1> DEFINE w == v * PageSize + r
<1>6. w \in Int /\ 0 <= w /\ w < AddressLimit
  BY <1>4, <1>5, SearchLimits
<1>7. a \in Int /\ a = u * AddressLimit + w
  BY <1>2, <1>3, <1>5
<1>8. w = v * PageSize + r
  OBVIOUS
<1> HIDE DEF a, w
<1>9. a % AddressLimit = w
  BY <1>1, <1>6, <1>7, SearchLimits, Quotient
<1>10. w \div PageSize = v
  BY <1>1, <1>6, <1>8, SearchLimits, Quotient
<1>11. PageOf(a) = v
  BY <1>9, <1>10 DEF PageOf
<1> QED
  BY <1>8, <1>9, <1>11 DEF a, v

-----------------------------------------------------------------------------
(* A place and the start of its page have the same pages behind them, and  *)
(* the range checks treat them alike.                                      *)
LEMMA FloorIsFree ==
  ASSUME NEW a \in Nat, NEW n \in Nat, MuiIsMappingFree(a, n)
  PROVE  MuiIsMappingFree((a \div PageSize) * PageSize, n)
<1> DEFINE q == a \div PageSize
           r == a % PageSize
<1>1. q \in Int /\ r \in 0..PageSize - 1 /\ a = q * PageSize + r
  BY SearchLimits, Division
<1> HIDE DEF q, r
<1>2. q \in Nat
  <2>1. ~(q < 0)
    BY <1>1, SearchLimits, Products
  <2> QED
    BY <1>1, <2>1
<1>3. 0 \in 0..PageSize - 1
  BY SearchLimits
<1>4. ASSUME NEW i \in Nat
      PROVE  /\ a + i * PageSize = (q + i) * PageSize + r
             /\ q * PageSize + i * PageSize = (q + i) * PageSize + 0
             /\ q + i \in Nat
  BY <1>1, <1>2, SearchLimits
<1>5. ASSUME NEW i \in Nat
      PROVE  PageAt(q * PageSize, i) = PageAt(a, i)
  <2>1. PageOf((q + i) * PageSize + r) = PageOf((q + i) * PageSize + 0)
    BY <1>1, <1>3, <1>4, WrappedPage
  <2> QED
    BY <1>4, <2>1 DEF PageAt
<1>6. (q * PageSize + n * PageSize) % AddressLimit <= (a + n * PageSize) % AddressLimit
  <2>1. /\ ((q + n) * PageSize + r) % AddressLimit = ((q + n) % AddressPages) * PageSize + r
        /\ ((q + n) * PageSize + 0) % AddressLimit = ((q + n) % AddressPages) * PageSize + 0
    BY <1>1, <1>3, <1>4, WrappedPage
  <2>2. (q + n) % AddressPages \in 0..AddressPages - 1
    BY <1>4, SearchLimits
  <2>3. ((q + n) % AddressPages) * PageSize \in Int
    BY <2>2, SearchLimits
  <2> QED
    BY <1>1, <1>4, <2>1, <2>3
<1>7. MuAreMappingParmsValid(q * PageSize, n)
  <2>1. /\ (q * PageSize + n * PageSize) % AddressLimit \in Int
        /\ (a + n * PageSize) % AddressLimit \in Int
    BY <1>1, <1>2, SearchLimits
  <2> QED
    BY <1>6, <2>1, SearchLimits DEF MuAreMappingParmsValid, MuiIsMappingFree
<1>8. \A i \in 0..n - 1 : i \in Nat
  OBVIOUS
<1>9. MuiIsMappingFree(q * PageSize, n)
  BY <1>5, <1>7, <1>8 DEF MuiIsMappingFree
<1> QED
  BY <1>9 DEF q

(* The start of a page is not below an aligned address that the page is    *)
(* not below.                                                              *)
LEMMA FloorOf ==
  ASSUME NEW a \in Nat, NEW h \in Nat, h <= a, h % PageSize = 0
  PROVE  LET b == (a \div PageSize) * PageSize
         IN b \in Nat /\ h <= b /\ b <= a /\ b % PageSize = 0
<1> DEFINE q == a \div PageSize
           t == h \div PageSize
<1>1. q \in Int /\ a % PageSize \in 0..PageSize - 1 /\ a = q * PageSize + (a % PageSize)
  BY SearchLimits, Division
<1>2. t \in Int /\ h = t * PageSize + (h % PageSize)
  BY SearchLimits, Division
<1> HIDE DEF q, t
<1>3. ~(q < t)
  BY <1>1, <1>2, SearchLimits, Products
<1>4. t * PageSize <= q * PageSize /\ t * PageSize \in Int /\ q * PageSize \in Int
  BY <1>1, <1>2, <1>3, SearchLimits, Products
<1>5. h <= q * PageSize /\ q * PageSize <= a /\ q * PageSize \in Nat
  BY <1>1, <1>2, <1>4
<1>6. (q * PageSize) % PageSize = 0
  <2> DEFINE b == q * PageSize
  <2>1. b \in Int /\ b = q * PageSize + 0 /\ 0 < PageSize
    BY <1>4, SearchLimits
  <2> HIDE DEF b
  <2>2. b % PageSize = 0
    BY <1>1, <2>1, SearchLimits, Quotient
  <2> QED
    BY <2>2 DEF b
<1> QED
  BY <1>5, <1>6 DEF q

(* Where the search goes: above the hint, then from the base to the hint.  *)
Above(h, n) == {a \in h..SearchEnd(n) - 1 : MuiIsMappingFree(a, n)}
Below(h, n) == {a \in USER_HEAP_BASE..h - 1 : MuiIsMappingFree(a, n)}

LEMMA SearchIs ==
  ASSUME NEW h, NEW n
  PROVE  MuiFindPlaceAroundHint(h, n) =
           IF Above(h, n) # {} THEN LowestOf(Above(h, n))
           ELSE IF Below(h, n) # {} THEN LowestOf(Below(h, n)) ELSE 0
BY DEF MuiFindPlaceAroundHint, Above, Below

(* What is found is free, in the search's range, and not behind the start  *)
(* of its page.                                                            *)
LEMMA FoundPlace ==
  ASSUME NEW h \in USER_HEAP_BASE..KERNEL_HEAP_BASE - 1, NEW n \in Nat,
         MuiFindPlaceAroundHint(h, n) # 0
  PROVE  /\ MuiFindPlaceAroundHint(h, n) \in USER_HEAP_BASE..AddressLimit - 1
         /\ MuiIsMappingFree(MuiFindPlaceAroundHint(h, n), n)
         /\ h % PageSize = 0 => MuiFindPlaceAroundHint(h, n) % PageSize = 0
<1> DEFINE place == MuiFindPlaceAroundHint(h, n)
<1>1. h \in Nat /\ USER_HEAP_BASE <= h /\ h < KERNEL_HEAP_BASE
  BY SearchLimits
<1>2. SearchEnd(n) \in Nat /\ SearchEnd(n) <= AddressLimit
  <2>1. KERNEL_HEAP_BASE - n \in Int
    BY SearchLimits
  <2>2. (KERNEL_HEAP_BASE - n) % AddressLimit \in 0..AddressLimit - 1
    BY <2>1, SearchLimits, Division
  <2> QED
    BY <2>2, SearchLimits DEF SearchEnd
<1>3. ASSUME NEW low \in Nat, NEW high \in Nat, NEW S,
             S = {a \in low..high - 1 : MuiIsMappingFree(a, n)}, S # {},
             USER_HEAP_BASE <= low, high <= AddressLimit
      PROVE  /\ LowestOf(S) \in USER_HEAP_BASE..AddressLimit - 1
             /\ MuiIsMappingFree(LowestOf(S), n)
             /\ low % PageSize = 0 => LowestOf(S) % PageSize = 0
  <2>1. S \in SUBSET Nat
    BY <1>3
  <2>2. LowestOf(S) \in S /\ \A i \in S : LowestOf(S) <= i
    BY <1>3, <2>1, LowestIs
  <2>3. LowestOf(S) \in low..high - 1 /\ LowestOf(S) \in Nat /\ MuiIsMappingFree(LowestOf(S), n)
    BY <1>3, <2>2
  <2>4. ASSUME low % PageSize = 0
        PROVE  LowestOf(S) % PageSize = 0
    <3> DEFINE b == (LowestOf(S) \div PageSize) * PageSize
    <3>1. b \in Nat /\ low <= b /\ b <= LowestOf(S) /\ b % PageSize = 0
      BY <2>3, <2>4, FloorOf
    <3>2. MuiIsMappingFree(b, n)
      BY <2>3, FloorIsFree
    <3> HIDE DEF b
    <3>3. b \in S
      BY <1>3, <2>3, <3>1, <3>2
    <3>4. b = LowestOf(S)
      BY <2>2, <2>3, <3>1, <3>3
    <3> QED
      BY <3>1, <3>4
  <2> QED
    BY <1>3, <2>3, <2>4, SearchLimits
<1>4. CASE Above(h, n) # {}
  <2>1. place = LowestOf(Above(h, n))
    BY <1>4, SearchIs
  <2> QED
    BY <1>1, <1>2, <1>3, <1>4, <2>1 DEF Above
<1>5. CASE Above(h, n) = {}
  <2>1. Below(h, n) # {} /\ place = LowestOf(Below(h, n))
    BY <1>5, SearchIs
  <2>2. USER_HEAP_BASE \in Nat /\ USER_HEAP_BASE % PageSize = 0 /\ h <= AddressLimit
    BY <1>1, SearchLimits
  <2> QED
    BY <1>1, <1>3, <2>1, <2>2 DEF Below
<1> QED
  BY <1>4, <1>5

(* An address with a page's length behind it below the kernel heap is in a *)
(* page of the user's half.                                                *)
LEMMA UserPageOf ==
  ASSUME NEW a \in Nat, a + PageSize <= KERNEL_HEAP_BASE
  PROVE  PageOf(a) \in UserPages
<1> DEFINE base == KERNEL_HEAP_BASE
           q == a \div PageSize
           t == base \div PageSize
<1>1. a % AddressLimit = a /\ base % AddressLimit = base /\ base \in Nat
  BY SearchLimits
<1>2. PageOf(a) = q /\ PageOf(KERNEL_HEAP_BASE) = t
  BY <1>1 DEF PageOf
<1>3. q \in Int /\ a % PageSize \in 0..PageSize - 1 /\ a = q * PageSize + (a % PageSize)
  BY SearchLimits, Division
<1>4. t \in Int /\ base % PageSize \in 0..PageSize - 1 /\ base = t * PageSize + (base % PageSize)
  BY <1>1, SearchLimits, Division
<1>5. a + PageSize <= base
  OBVIOUS
<1> HIDE DEF q, t, base
<1>6. q * PageSize \in Int /\ t * PageSize \in Int
  BY <1>3, <1>4, SearchLimits, Products
<1>7. q < t
  <2>1. t <= q => t * PageSize <= q * PageSize
    BY <1>3, <1>4, SearchLimits, Products
  <2> QED
    BY <1>1, <1>3, <1>4, <1>5, <1>6, <2>1, SearchLimits
<1>8. 0 <= q
  <2>1. q < 0 => q * PageSize + PageSize <= 0 * PageSize /\ 0 * PageSize = 0
    BY <1>3, SearchLimits, Products
  <2> QED
    BY <1>3, <1>6, <2>1, SearchLimits
<1> QED
  BY <1>2, <1>3, <1>4, <1>7, <1>8 DEF UserPages

(* Room for n pages.                                                       *)
RoomFor(n) ==
  {a \in USER_HEAP_BASE..KERNEL_HEAP_BASE - 1 :
     /\ a % PageSize = 0 /\ a + n * PageSize < KERNEL_HEAP_BASE
     /\ \A p \in PagesOf(a, n) : pageEntry[p] = "none"}

(* If there is room, the search is not over before it.                     *)
LEMMA RoomIsFound ==
  ASSUME NEW n \in Nat \ {0}, NEW h \in USER_HEAP_BASE..KERNEL_HEAP_BASE - 1,
         NEW a \in RoomFor(n)
  PROVE  /\ MuiFindPlaceAroundHint(h, n) # 0
         /\ MuiFindPlaceAroundHint(h, n) < KERNEL_HEAP_BASE
<1> DEFINE place == MuiFindPlaceAroundHint(h, n)
<1>1. a \in USER_HEAP_BASE..KERNEL_HEAP_BASE - 1 /\ a + n * PageSize < KERNEL_HEAP_BASE
  BY DEF RoomFor
<1>2. /\ n \in Nat \ {0} /\ a \in Nat /\ h \in Nat /\ USER_HEAP_BASE <= h /\ n * PageSize \in Nat
      /\ USER_HEAP_BASE <= a /\ h < KERNEL_HEAP_BASE
  BY <1>1, SearchLimits
<1>3. n <= n * PageSize
  BY <1>2, SearchLimits
<1>4. MuiIsMappingFree(a, n)
  <2>1. a + n * PageSize < AddressLimit /\ (a + n * PageSize) % AddressLimit = a + n * PageSize
    BY <1>1, <1>2, SearchLimits
  <2>2. n < AddressLimit \div 2
    BY <1>1, <1>2, <1>3, SearchLimits
  <2>3. \A i \in 0..n - 1 : pageEntry[PageAt(a, i)] = "none"
    BY DEF RoomFor, PagesOf
  <2> QED
    BY <1>1, <2>1, <2>2, <2>3 DEF MuiIsMappingFree, MuAreMappingParmsValid
<1>5. a < SearchEnd(n) /\ SearchEnd(n) \in Nat /\ SearchEnd(n) <= KERNEL_HEAP_BASE
  <2>1. SearchEnd(n) = KERNEL_HEAP_BASE - n
    BY <1>1, <1>2, <1>3, SearchLimits DEF SearchEnd
  <2> QED
    BY <1>1, <1>2, <1>3, <2>1, SearchLimits
<1>6. Above(h, n) \in SUBSET Nat /\ Below(h, n) \in SUBSET Nat
  BY <1>2, <1>5, SearchLimits DEF Above, Below
<1>7. CASE Above(h, n) # {}
  <2>1. place \in Above(h, n)
    BY <1>6, <1>7, LowestIs, SearchIs
  <2> QED
    BY <1>2, <1>5, <2>1, SearchLimits DEF Above
<1>8. CASE Above(h, n) = {}
  <2>1. a \in Below(h, n)
    BY <1>2, <1>4, <1>5, <1>8, SearchLimits DEF Above, Below
  <2>2. place \in Below(h, n)
    BY <1>6, <1>8, <2>1, LowestIs, SearchIs
  <2> QED
    BY <1>2, <2>2, SearchLimits DEF Below
<1> QED
  BY <1>7, <1>8

(* What is found ends before the kernel heap, though the sum of its start  *)
(* and its length could wrap, because a place as long as the room does not.*)
LEMMA FoundInUserHalf ==
  ASSUME NEW n \in Nat \ {0}, NEW h \in USER_HEAP_BASE..KERNEL_HEAP_BASE - 1,
         RoomFor(n) # {}
  PROVE  PagesOf(MuiFindPlaceAroundHint(h, n), n) \subseteq UserPages
<1> DEFINE place == MuiFindPlaceAroundHint(h, n)
<1>1. PICK a \in RoomFor(n) : TRUE
  OBVIOUS
<1>2. place # 0 /\ place < KERNEL_HEAP_BASE
  BY RoomIsFound, <1>1
<1>3. place \in Nat /\ MuiIsMappingFree(place, n)
  BY <1>2, FoundPlace, SearchLimits
<1>4. n * PageSize \in Nat /\ a \in Nat /\ a + n * PageSize < KERNEL_HEAP_BASE
  BY <1>1, SearchLimits DEF RoomFor
<1> HIDE DEF place
<1>5. place + n * PageSize < KERNEL_HEAP_BASE
  <2> DEFINE end == place + n * PageSize
  <2>1. end \in Nat /\ end < AddressLimit
    BY <1>2, <1>3, <1>4, SearchLimits
  <2>2. end % AddressLimit < KERNEL_HEAP_BASE
    BY <1>3 DEF MuiIsMappingFree, MuAreMappingParmsValid
  <2> QED
    BY <2>1, <2>2, SearchLimits
<1>6. ASSUME NEW i \in 0..n - 1
      PROVE  PageAt(place, i) \in UserPages
  <2>1. i * PageSize + PageSize <= n * PageSize /\ i * PageSize \in Nat
    BY SearchLimits, Products
  <2>2. place + i * PageSize \in Nat /\ (place + i * PageSize) + PageSize <= KERNEL_HEAP_BASE
    BY <1>3, <1>4, <1>5, <2>1, SearchLimits
  <2> QED
    BY <2>2, UserPageOf DEF PageAt
<1> QED
  BY <1>6 DEF PagesOf, place

(* The mapping fails at pages the search takes for free only where a page  *)
(* is there on demand.                                                     *)
LEMMA FreeOrDemand ==
  ASSUME pageEntry \in [UserPages -> {"none", "demand", "present"}],
         NEW place, NEW n, MuiIsMappingFree(place, n), PagesOf(place, n) \subseteq UserPages
  PROVE  \/ MapsAll(place, n)
         \/ \E p \in PagesOf(place, n) : pageEntry[p] = "demand"
<1>1. ASSUME NEW i \in 0..n - 1, Fails(place, i)
      PROVE  \E p \in PagesOf(place, n) : pageEntry[p] = "demand"
  <2>1. PageAt(place, i) \in PagesOf(place, n)
    BY DEF PagesOf
  <2>2. pageEntry[PageAt(place, i)] \notin {"none", "present"}
    BY <1>1, <2>1 DEF Fails, MuiIsMappingFree
  <2> QED
    BY <2>1, <2>2
<1> QED
  BY <1>1 DEF MapsAll

(* From the start of its page on, all of the room is found to be free.     *)
LEMMA FindsPlaceAlways ==
  ASSUME pageEntry \in [UserPages -> {"none", "demand", "present"}]
  PROVE  FindsPlace
<1>1. \A n \in Counts : n \in Nat \ {0}
  BY MapSearchAssumption
<1>2. ASSUME NEW n \in Counts, NEW h \in USER_HEAP_BASE..KERNEL_HEAP_BASE - 1, RoomFor(n) # {}
      PROVE  LET place == MuiFindPlaceAroundHint(h, n)
             IN /\ place # 0 /\ PagesOf(place, n) \subseteq UserPages
                /\ \/ MapsAll(place, n)
                   \/ \E p \in PagesOf(place, n) : pageEntry[p] = "demand"
  <2>1. PICK a \in RoomFor(n) : TRUE
    BY <1>2
  <2>2. MuiFindPlaceAroundHint(h, n) # 0
    BY <1>1, <2>1, RoomIsFound
  <2>3. MuiIsMappingFree(MuiFindPlaceAroundHint(h, n), n)
    BY <1>1, <2>2, FoundPlace
  <2>4. PagesOf(MuiFindPlaceAroundHint(h, n), n) \subseteq UserPages
    BY <1>1, <1>2, FoundInUserHalf
  <2> QED
    BY <2>2, <2>3, <2>4, FreeOrDemand
<1>3. ASSUME NEW n \in Counts, NEW h \in USER_HEAP_BASE..KERNEL_HEAP_BASE - 1
      PROVE  LET place == MuiFindPlaceAroundHint(h, n)
             IN place # 0 /\ h % PageSize = 0 => place % PageSize = 0
  BY <1>1, FoundPlace
<1> QED
  BY <1>2, <1>3 DEF FindsPlace, RoomFor

-----------------------------------------------------------------------------
(* HeldIsOwned with a part for every mapping.                              *)
Holding == [address : Nat, pages : Nat \ {0}]

SearchType ==
  /\ pageEntry \in [UserPages -> {"none", "demand", "present"}]
  /\ held \in Seq(Holding)

(* The pages of the k-th mapping.                                          *)
HeldPages(k) == PagesOf(held[k].address, held[k].pages)

OwnsPages(k) ==
  /\ HeldPages(k) \subseteq UserPages
  /\ \A p \in HeldPages(k) : pageEntry[p] # "none"
  /\ \A j \in DOMAIN held \ {k} : HeldPages(k) \cap HeldPages(j) = {}

LEMMA HeldIs == HeldIsOwned <=> \A k \in DOMAIN held : OwnsPages(k)
BY DEF HeldIsOwned, OwnsPages, HeldPages

LEMMA HeldIsNext == HeldIsOwned' <=> \A k \in DOMAIN held' : OwnsPages(k)'
BY DEF HeldIsOwned, OwnsPages, HeldPages

(* The loop of MuiMapMemoryFixedHint maps pages without an entry, and all  *)
(* of them if it does not fail.                                            *)
LEMMA MappedBeforeIs ==
  ASSUME NEW a, NEW n \in Nat
  PROVE  /\ \A p \in PagesOf(a, MappedBefore(a, n)) : p \in UserPages /\ pageEntry[p] = "none"
         /\ MapsAll(a, n) => MappedBefore(a, n) = n
<1> DEFINE S == {i \in 0..n - 1 : Fails(a, i)} \cup {n}
<1>1. S \in SUBSET Nat /\ S # {}
  OBVIOUS
<1>2. LowestOf(S) \in S /\ \A i \in S : LowestOf(S) <= i
  BY <1>1, LowestIs
<1>3. LowestOf(S) \in 0..n
  BY <1>2
<1>4. MappedBefore(a, n) = IF ~MuiIsMappingFree(a, n) THEN 0 ELSE LowestOf(S)
  BY DEF MappedBefore
<1>5. ASSUME NEW i \in 0..MappedBefore(a, n) - 1
      PROVE  ~Fails(a, i)
  <2>1. MuiIsMappingFree(a, n) /\ i \in 0..n - 1 /\ i < LowestOf(S)
    BY <1>3, <1>4
  <2>2. Fails(a, i) => i \in S
    BY <2>1
  <2> QED
    BY <1>2, <1>3, <2>1, <2>2
<1>6. \A p \in PagesOf(a, MappedBefore(a, n)) : p \in UserPages /\ pageEntry[p] = "none"
  BY <1>5 DEF PagesOf, Fails
<1>7. MapsAll(a, n) => S = {n}
  BY DEF MapsAll
<1>8. MapsAll(a, n) => MappedBefore(a, n) = n
  BY <1>2, <1>4, <1>7 DEF MapsAll
<1> QED
  BY <1>6, <1>8

(* A new mapping takes pages that no mapping has, as those have no entry.  *)
LEMMA MapFixedHintOwned ==
  ASSUME SearchType, HeldIsOwned, NEW a \in Nat, NEW n \in Nat \ {0},
         NEW kind \in {"demand", "present"}, MuiMapMemoryFixedHint(a, n, kind)
  PROVE  SearchType' /\ HeldIsOwned'
<1> DEFINE mapped == PagesOf(a, MappedBefore(a, n))
           sets   == MapsAll(a, n) \/ kind = "demand"
<1>1. /\ pageEntry' = [p \in UserPages |-> IF p \in mapped /\ sets THEN kind ELSE pageEntry[p]]
      /\ held' = IF MapsAll(a, n) THEN Append(held, [address |-> a, pages |-> n]) ELSE held
  BY DEF MuiMapMemoryFixedHint
<1>2. \A p \in mapped : p \in UserPages /\ pageEntry[p] = "none"
  BY MappedBeforeIs
<1>3. [address |-> a, pages |-> n] \in Holding
  BY DEF Holding
<1>4. held \in Seq(Holding) /\ pageEntry \in [UserPages -> {"none", "demand", "present"}]
  BY DEF SearchType
<1> HIDE DEF mapped, sets
<1>5. SearchType'
  <2>1. held' \in Seq(Holding)
    BY <1>1, <1>3, <1>4
  <2>2. pageEntry' \in [UserPages -> {"none", "demand", "present"}]
    BY <1>1, <1>4
  <2> QED
    BY <2>1, <2>2 DEF SearchType
<1>6. ASSUME NEW p \in UserPages, pageEntry[p] # "none"
      PROVE  pageEntry'[p] # "none"
  BY <1>1, <1>6
<1>7. \A k \in DOMAIN held : OwnsPages(k)
  BY HeldIs
<1>8. CASE ~MapsAll(a, n)
  <2>1. held' = held
    BY <1>1, <1>8
  <2> QED
    BY <1>5, <1>6, <1>7, <2>1, HeldIsNext DEF OwnsPages, HeldPages
<1>9. CASE MapsAll(a, n)
  <2> PICK new \in Nat : new = Len(held) + 1
    BY <1>4
  <2>1. mapped = PagesOf(a, n)
    BY <1>9, MappedBeforeIs DEF mapped
  <2>2. held' = Append(held, [address |-> a, pages |-> n])
    BY <1>1, <1>9
  <2>3. /\ DOMAIN held' = DOMAIN held \cup {new} /\ new \notin DOMAIN held
        /\ held'[new] = [address |-> a, pages |-> n]
        /\ \A k \in DOMAIN held : held'[k] = held[k]
    BY <1>3, <1>4, <2>2
  <2>4. HeldPages(new)' = mapped
    BY <2>1, <2>3 DEF HeldPages
  <2>5. \A k \in DOMAIN held : HeldPages(k)' = HeldPages(k)
    BY <2>3 DEF HeldPages
  <2>6. \A p \in mapped : pageEntry'[p] # "none"
    BY <1>1, <1>2, <1>9 DEF sets
  <2>7. \A k \in DOMAIN held : mapped \cap HeldPages(k) = {}
    BY <1>2, <1>7 DEF OwnsPages
  <2>8. OwnsPages(new)'
    BY <1>2, <2>3, <2>4, <2>5, <2>6, <2>7 DEF OwnsPages
  <2>9. ASSUME NEW k \in DOMAIN held
        PROVE  OwnsPages(k)'
    <3>1. OwnsPages(k)
      BY <1>7
    <3>2. HeldPages(k)' \subseteq UserPages /\ \A p \in HeldPages(k)' : pageEntry'[p] # "none"
      BY <1>6, <2>5, <3>1 DEF OwnsPages
    <3>3. ASSUME NEW j \in DOMAIN held' \ {k}
          PROVE  HeldPages(k)' \cap HeldPages(j)' = {}
      <4>1. CASE j \in DOMAIN held
        BY <2>5, <3>1, <4>1 DEF OwnsPages
      <4>2. CASE j = new
        BY <2>4, <2>5, <2>7, <4>2
      <4> QED
        BY <2>3, <4>1, <4>2
    <3> QED
      BY <3>2, <3>3 DEF OwnsPages
  <2> QED
    BY <1>5, <2>3, <2>8, <2>9, HeldIsNext
<1> QED
  BY <1>8, <1>9

LEMMA ConcatBehind ==
  ASSUME NEW S, NEW u \in Seq(S), NEW v \in Seq(S),
         NEW i \in Len(u) + 1..Len(u) + Len(v)
  PROVE  (u \o v)[i] = v[i - Len(u)]
OBVIOUS

(* Taking the k-th mapping away leaves the others, in their order.         *)
LEMMA KeptIs ==
  ASSUME NEW S, held \in Seq(S), NEW k \in DOMAIN held
  PROVE  /\ Kept(k) \in Seq(S)
         /\ \A i \in DOMAIN Kept(k) :
              LET o == IF i < k THEN i ELSE i + 1
              IN i \in Int /\ o \in DOMAIN held \ {k} /\ Kept(k)[i] = held[o]
<1> DEFINE before == SubSeq(held, 1, k - 1)
           behind == SubSeq(held, k + 1, Len(held))
<1>1. k \in Nat /\ 1 <= k /\ k <= Len(held) /\ Len(held) \in Nat
  OBVIOUS
<1>2. /\ before \in Seq(S) /\ Len(before) = k - 1
      /\ \A i \in 1..k - 1 : before[i] = held[i]
  BY <1>1
<1>3. /\ behind \in Seq(S) /\ Len(behind) = Len(held) - k
      /\ \A i \in 1..Len(held) - k : behind[i] = held[k + i]
  BY <1>1
<1>4. Kept(k) = before \o behind
  BY DEF Kept
<1> HIDE DEF before, behind
<1>5. Kept(k) \in Seq(S) /\ Len(Kept(k)) = Len(held) - 1
  BY <1>1, <1>2, <1>3, <1>4
<1>6. ASSUME NEW i \in DOMAIN Kept(k)
      PROVE  LET o == IF i < k THEN i ELSE i + 1
             IN i \in Int /\ o \in DOMAIN held \ {k} /\ Kept(k)[i] = held[o]
  <2>1. i \in Nat /\ 1 <= i /\ i <= Len(held) - 1
    BY <1>1, <1>5
  <2>2. CASE i < k
    BY <1>1, <1>2, <1>3, <1>4, <2>1, <2>2
  <2>3. CASE k <= i
    <3>1. Kept(k)[i] = behind[i - (k - 1)]
      <4>1. i \in Len(before) + 1..Len(before) + Len(behind)
        BY <1>1, <1>2, <1>3, <2>1, <2>3
      <4>2. before \in Seq(S) /\ behind \in Seq(S) /\ Len(before) = k - 1
        BY <1>2, <1>3
      <4>3. (before \o behind)[i] = behind[i - Len(before)]
        BY <4>1, <4>2, ConcatBehind
      <4> QED
        BY <1>4, <4>2, <4>3
    <3>2. i - (k - 1) \in 1..Len(held) - k /\ k + (i - (k - 1)) = i + 1
      BY <1>1, <2>1, <2>3
    <3> QED
      BY <1>1, <1>3, <2>1, <2>3, <3>1, <3>2, SMTT(30)
  <2> QED
    BY <1>1, <2>1, <2>2, <2>3
<1> QED
  BY <1>5, <1>6

(* Unmapping takes the pages of the mapping, and only those.               *)
LEMMA UnMapOwned ==
  ASSUME SearchType, HeldIsOwned, NEW k \in DOMAIN held, MuiUnMap(k)
  PROVE  SearchType' /\ HeldIsOwned'
<1>1. CASE UNCHANGED <<pageEntry, held>>
  BY <1>1 DEF SearchType, HeldIsOwned
<1>2. CASE ~UNCHANGED <<pageEntry, held>>
  <2>1. /\ pageEntry' = [p \in UserPages |-> IF p \in Unmapped(held[k]) THEN "none" ELSE pageEntry[p]]
        /\ held' = Kept(k)
    BY <1>2 DEF MuiUnMap
  <2>2. held \in Seq(Holding) /\ pageEntry \in [UserPages -> {"none", "demand", "present"}]
    BY DEF SearchType
  <2>3. held' \in Seq(Holding)
    BY <2>1, <2>2, KeptIs
  <2>4. SearchType'
    BY <2>1, <2>2, <2>3 DEF SearchType
  <2>5. \A j \in DOMAIN held : OwnsPages(j)
    BY HeldIs
  <2>6. ASSUME NEW j \in DOMAIN held \ {k}, NEW p \in HeldPages(j)
        PROVE  p \in UserPages /\ pageEntry'[p] # "none"
    <3>1. p \in UserPages /\ pageEntry[p] # "none" /\ p \notin HeldPages(k)
      BY <2>5 DEF OwnsPages
    <3>2. p \notin Unmapped(held[k])
      BY <3>1 DEF Unmapped, HeldPages
    <3> QED
      BY <2>1, <3>1, <3>2
  <2> DEFINE old(i) == IF i < k THEN i ELSE i + 1
  <2>7. ASSUME NEW i \in DOMAIN held'
        PROVE  i \in Int /\ old(i) \in DOMAIN held \ {k} /\ HeldPages(i)' = HeldPages(old(i))
    BY <2>1, <2>2, KeptIs DEF HeldPages
  <2>8. ASSUME NEW i \in DOMAIN held', NEW j \in DOMAIN held' \ {i}
        PROVE  old(i) # old(j)
    <3>1. i \in Int /\ j \in Int /\ k \in Int
      BY <2>2, <2>7
    <3> QED
      BY <3>1
  <2> HIDE DEF old
  <2>9. ASSUME NEW i \in DOMAIN held'
        PROVE  OwnsPages(i)'
    BY <2>5, <2>6, <2>7, <2>8 DEF OwnsPages
  <2> QED
    BY <2>4, <2>9, HeldIsNext
<1> QED
  BY <1>1, <1>2

-----------------------------------------------------------------------------
(* What MuiMapMemory maps ends below the kernel heap: of the addresses on  *)
(* the way there, one page apart, none is in the kernel's half.            *)
LEMMA MappingEnds ==
  ASSUME NEW a \in USER_HEAP_BASE..AddressLimit - 1, NEW n \in Nat \ {0}, MapsAll(a, n)
  PROVE  a + n * PageSize < KERNEL_HEAP_BASE
<1> DEFINE S == {i \in 0..n : KERNEL_HEAP_BASE <= a + i * PageSize}
<1>1. SUFFICES ASSUME KERNEL_HEAP_BASE <= a + n * PageSize
               PROVE  FALSE
  BY SearchLimits
<1>2. a \in Nat /\ a < AddressLimit
  BY SearchLimits
<1>3. \A i \in 0..n - 1 : PageAt(a, i) \in UserPages
  BY DEF MapsAll, Fails
<1>4. (a + n * PageSize) % AddressLimit < KERNEL_HEAP_BASE
  BY DEF MapsAll, MuiIsMappingFree, MuAreMappingParmsValid
<1>5. n \in S /\ S \in SUBSET Nat
  BY <1>1
<1>6. PICK i \in S : \A j \in S : i <= j
  BY <1>5, LeastOf
<1>7. i \in Nat /\ i <= n /\ KERNEL_HEAP_BASE <= a + i * PageSize /\ i * PageSize \in Nat
  BY <1>6, SearchLimits
<1>8. a < KERNEL_HEAP_BASE
  <2>1. 0 \in 0..n - 1 /\ a + 0 * PageSize = a
    BY <1>2, SearchLimits
  <2>2. PageOf(a) \in UserPages
    BY <1>3, <2>1 DEF PageAt
  <2> QED
    BY <1>2, <2>2, PageOfUser
<1>9. a + i * PageSize < AddressLimit
  <2>1. i # 0
    <3>1. ASSUME i = 0 PROVE i * PageSize = 0
      BY <3>1, SearchLimits
    <3> QED
      BY <1>2, <1>7, <1>8, <3>1, SearchLimits
  <2>2. i - 1 \in 0..n /\ i - 1 \notin S
    BY <1>6, <1>7, <2>1
  <2>3. ~(KERNEL_HEAP_BASE <= a + (i - 1) * PageSize)
    BY <2>2
  <2>4. (i - 1) * PageSize \in Int /\ i * PageSize = (i - 1) * PageSize + PageSize
    BY <1>7, SearchLimits
  <2> QED
    BY <1>2, <1>7, <2>3, <2>4, SearchLimits
<1>10. CASE i = n
  <2>1. (a + n * PageSize) % AddressLimit = a + n * PageSize
    BY <1>2, <1>7, <1>9, <1>10, SearchLimits
  <2> QED
    BY <1>1, <1>2, <1>4, <1>7, <1>10, <2>1, SearchLimits
<1>11. CASE i # n
  <2>1. PageOf(a + i * PageSize) \in UserPages
    BY <1>3, <1>7, <1>11 DEF PageAt
  <2>2. a + i * PageSize \in Nat
    BY <1>2, <1>7
  <2> QED
    BY <1>2, <1>7, <1>9, <2>1, <2>2, PageOfUser, SearchLimits
<1> QED
  BY <1>10, <1>11

(* A multiple has no remainder.                                            *)
LEMMA Multiple ==
  ASSUME NEW a \in Int, NEW q \in Int, NEW b \in Nat \ {0}, a = q * b
  PROVE  a % b = 0
<1> DEFINE z == 0
<1>1. a = q * b + z /\ z \in Int /\ 0 <= z /\ z < b
  <2>1. q * b \in Int
    BY Products
  <2> QED
    BY <2>1
<1>2. z = 0
  OBVIOUS
<1> HIDE DEF z
<1>3. a % b = z
  BY <1>1, Quotient
<1> QED
  BY <1>2, <1>3

(* The next hint is the end of the mapping, which needs no wrapping.       *)
LEMMA NextHintIs ==
  ASSUME NEW a \in USER_HEAP_BASE..AddressLimit - 1, NEW n \in Nat \ {0},
         MapsAll(a, n), a % PageSize = 0
  PROVE  /\ NextHint(a, n) \in USER_HEAP_BASE..KERNEL_HEAP_BASE - 1
         /\ NextHint(a, n) % PageSize = 0
<1>1. a + n * PageSize < KERNEL_HEAP_BASE
  BY MappingEnds
<1> DEFINE b == a + n * PageSize
<1>2. a \in Nat /\ n * PageSize \in Nat /\ PageSize * n = n * PageSize
  BY SearchLimits
<1>3. b \in Nat /\ b < AddressLimit /\ b % AddressLimit = b /\ USER_HEAP_BASE <= b
  BY <1>1, <1>2, SearchLimits
<1>4. NextHint(a, n) = b
  BY <1>1, <1>2, <1>3, SearchLimits DEF NextHint
<1>5. b % PageSize = 0
  <2> DEFINE q == a \div PageSize
  <2>1. q \in Int /\ a = q * PageSize + 0
    BY <1>2, SearchLimits, Division
  <2> HIDE DEF q
  <2>2. b = (q + n) * PageSize /\ q + n \in Int /\ b \in Int
    BY <1>2, <2>1, SearchLimits
  <2> DEFINE r == q + n
  <2>3. b = r * PageSize /\ r \in Int
    BY <2>2
  <2> HIDE DEF b, r
  <2> QED
    BY <2>2, <2>3, SearchLimits, Multiple
<1>6. b \in USER_HEAP_BASE..KERNEL_HEAP_BASE - 1
  BY <1>1, <1>3, SearchLimits
<1> HIDE DEF b
<1> QED
  BY <1>4, <1>5, <1>6

(* The invariant, and each of the actions.                                 *)
SearchInv == SearchType /\ HeldIsOwned /\ MapsInUserHeap

LEMMA SearchInitInv ==
  ASSUME SearchInit
  PROVE  SearchInv
<1>1. SearchType
  BY DEF SearchInit, SearchType
<1>2. HeldIsOwned
  BY DEF SearchInit, HeldIsOwned
<1>3. MapsInUserHeap
  BY SearchLimits DEF SearchInit, MapsInUserHeap
<1> QED
  BY <1>1, <1>2, <1>3 DEF SearchInv

LEMMA HintStays ==
  ASSUME MapsInUserHeap, m_nMappingHint' = m_nMappingHint
  PROVE  MapsInUserHeap'
BY DEF MapsInUserHeap

LEMMA MapAtOwned ==
  ASSUME SearchType, HeldIsOwned, NEW a \in Nat, NEW n \in Nat \ {0},
         NEW kind \in {"demand", "present"}, MapAt(a, n, kind)
  PROVE  /\ SearchType' /\ HeldIsOwned'
         /\ held' # held => a # 0 /\ MapsAll(a, n)
<1>1. CASE a = 0
  <2>1. UNCHANGED <<pageEntry, held>>
    BY <1>1 DEF MapAt
  <2> QED
    BY <2>1 DEF SearchType, HeldIsOwned
<1>2. CASE a # 0
  <2>1. MuiMapMemoryFixedHint(a, n, kind)
    BY <1>2 DEF MapAt
  <2>2. held' # held => MapsAll(a, n)
    BY <2>1 DEF MuiMapMemoryFixedHint
  <2> QED
    BY <1>2, <2>1, <2>2, MapFixedHintOwned
<1> QED
  BY <1>1, <1>2

LEMMA PlaceType ==
  ASSUME NEW h \in Nat, NEW n \in Nat
  PROVE  MuiFindPlaceAroundHint(h, n) \in Nat
<1>1. Above(h, n) \in SUBSET Nat /\ Below(h, n) \in SUBSET Nat
  <2>1. (KERNEL_HEAP_BASE - n) % AddressLimit \in 0..AddressLimit - 1
    BY SearchLimits
  <2>2. SearchEnd(n) \in Int
    BY <2>1, SearchLimits DEF SearchEnd
  <2> QED
    BY <2>2, SearchLimits DEF Above, Below
<1>2. CASE Above(h, n) # {}
  BY <1>1, <1>2, LowestIs, SearchIs
<1>3. CASE Above(h, n) = {}
  BY <1>1, <1>3, LowestIs, SearchIs
<1> QED
  BY <1>2, <1>3

LEMMA MuiMapMemoryInv ==
  ASSUME SearchInv, NEW n \in Nat \ {0}, NEW kind \in {"demand", "present"},
         MuiMapMemory(n, kind)
  PROVE  SearchInv'
<1> DEFINE place == MuiFindPlaceAroundHint(m_nMappingHint, n)
<1>1. m_nMappingHint \in USER_HEAP_BASE..KERNEL_HEAP_BASE - 1 /\ m_nMappingHint % PageSize = 0
  BY DEF SearchInv, MapsInUserHeap
<1>2. /\ MapAt(place, n, kind)
      /\ m_nMappingHint' = IF held' # held THEN NextHint(place, n) ELSE m_nMappingHint
  BY DEF MuiMapMemory
<1>3. place \in Nat
  <2>1. m_nMappingHint \in Nat
    BY <1>1, SearchLimits
  <2> QED
    BY <2>1, PlaceType
<1>4. place # 0 => place \in USER_HEAP_BASE..AddressLimit - 1 /\ place % PageSize = 0
  BY <1>1, FoundPlace
<1> HIDE DEF place
<1>5. /\ SearchType' /\ HeldIsOwned'
      /\ held' # held => place # 0 /\ MapsAll(place, n)
  BY <1>2, <1>3, MapAtOwned DEF SearchInv
<1>6. MapsInUserHeap'
  <2>1. CASE held' # held
    BY <1>2, <1>4, <1>5, <2>1, NextHintIs DEF MapsInUserHeap
  <2>2. CASE held' = held
    BY <1>2, <2>2, HintStays DEF SearchInv
  <2> QED
    BY <2>1, <2>2
<1> QED
  BY <1>5, <1>6 DEF SearchInv

LEMMA SearchNextInv ==
  ASSUME SearchInv, [SearchNext]_searchVars
  PROVE  SearchInv'
<1>1. ASSUME NEW n \in Counts
      PROVE  n \in Nat \ {0}
  BY MapSearchAssumption
<1>2. ASSUME NEW h \in Hints
      PROVE  h \in Nat
  BY MapSearchAssumption, SearchLimits
<1>3. ASSUME NEW n \in Counts, NEW kind \in {"demand", "present"}, NEW h \in Hints,
             MapFixed(h, n, kind)
      PROVE  SearchInv'
  <2>1. n \in Nat \ {0} /\ h \in Nat
    BY <1>1, <1>2
  <2> QED
    BY <1>3, <2>1, MapFixedHintOwned, HintStays DEF SearchInv, MapFixed
<1>4. ASSUME NEW n \in Counts, NEW kind \in {"demand", "present"}, NEW h \in Hints,
             MuiMapMemoryNonFixedHint(h, n, kind)
      PROVE  SearchInv'
  <2>1. n \in Nat \ {0} /\ n \in Nat /\ MuiFindPlaceAroundHint(h, n) \in Nat
    BY <1>1, <1>2, PlaceType
  <2>2. MapAt(MuiFindPlaceAroundHint(h, n), n, kind) /\ UNCHANGED m_nMappingHint
    BY <1>4 DEF MuiMapMemoryNonFixedHint
  <2>3. SearchType' /\ HeldIsOwned'
    BY <2>1, <2>2, MapAtOwned DEF SearchInv
  <2> QED
    BY <2>2, <2>3, HintStays DEF SearchInv
<1>5. ASSUME NEW n \in Counts, NEW kind \in {"demand", "present"}, MuiMapMemory(n, kind)
      PROVE  SearchInv'
  BY <1>1, <1>5, MuiMapMemoryInv
<1>6. ASSUME NEW k \in DOMAIN held, MuiUnMap(k)
      PROVE  SearchInv'
  BY <1>6, UnMapOwned, HintStays DEF SearchInv, MuiUnMap
<1>7. ASSUME NEW p \in UserPages, Touch(p)
      PROVE  SearchInv'
  <2>1. /\ pageEntry' = [pageEntry EXCEPT ![p] = "present"]
        /\ held' = held /\ m_nMappingHint' = m_nMappingHint
    BY <1>7 DEF Touch
  <2>2. SearchType'
    BY <2>1 DEF SearchInv, SearchType
  <2>3. \A q \in UserPages : pageEntry[q] # "none" => pageEntry'[q] # "none"
    BY <2>1 DEF SearchInv, SearchType
  <2>4. ASSUME NEW k \in DOMAIN held'
        PROVE  OwnsPages(k)'
    <3>1. OwnsPages(k)
      BY <2>1, HeldIs DEF SearchInv
    <3> QED
      BY <2>1, <2>3, <3>1 DEF OwnsPages, HeldPages
  <2> QED
    BY <2>1, <2>2, <2>4, HeldIsNext, HintStays DEF SearchInv
<1>8. CASE UNCHANGED searchVars
  BY <1>8 DEF searchVars, SearchInv, SearchType, HeldIsOwned, MapsInUserHeap
<1>9. CASE Halted
  BY <1>8, <1>9 DEF Halted
<1> QED
  BY <1>3, <1>4, <1>5, <1>6, <1>7, <1>8, <1>9 DEF SearchNext

LEMMA SearchInvAlways == SearchSpec => []SearchInv
<1>1. SearchInit => SearchInv
  BY SearchInitInv
<1>2. SearchInv /\ [SearchNext]_searchVars => SearchInv'
  BY SearchNextInv
<1> QED
  BY <1>1, <1>2, PTL DEF SearchSpec

(***************************************************************************)
(* Every page of a mapping that a caller holds is below the kernel heap,   *)
(* has an entry and belongs to no other mapping, wherever callers map and  *)
(* whatever they unmap: the loop of MuiMapMemoryFixedHint stops at a page  *)
(* with an entry, though the search takes demand pages for free and the    *)
(* range checks wrap (mm/uheap.c).                                         *)
(***************************************************************************)
THEOREM MappingsOwned == SearchSpec => []HeldIsOwned
<1>1. SearchInv => HeldIsOwned
  BY DEF SearchInv
<1> QED
  BY <1>1, SearchInvAlways, PTL

(***************************************************************************)
(* If there is room for a mapping in pages without an entry, the search    *)
(* comes to a place in the user's half from whatever hint, and the mapping *)
(* there succeeds unless one of its pages is a demand page, which the      *)
(* search takes for free and the mapping does not; a place starts with a   *)
(* page if the hint does; and the hint of the heap stays the start of a    *)
(* page between the bases of the user heap and the kernel heap             *)
(* (mm/uheap.c), for all sizes of addresses and pages.                     *)
(***************************************************************************)
THEOREM PlacesFound == SearchSpec => []SearchFinds
<1>1. SearchInv => SearchFinds
  BY FindsPlaceAlways DEF SearchInv, SearchType, SearchFinds
<1> QED
  BY <1>1, SearchInvAlways, PTL

-----------------------------------------------------------------------------
(***************************************************************************)
(* Translation: no translation that the processor has cached outlives what *)
(* it stands for, but for the paths that kill an entry without its         *)
(* address.                                                                *)
(***************************************************************************)
Entries ==
  {Empty} \cup {Demand(rw) : rw \in BOOLEAN}
    \cup {Present(f, rw, cow) : f \in Frames \cup Devices, rw \in BOOLEAN, cow \in BOOLEAN}

(* The heap in use exists, and translations are of pages.                  *)
TlbType ==
  /\ entry \in [Heaps -> [Pages -> Entries]]
  /\ live \subseteq Heaps /\ current \in live \cup {NoHeap}
  /\ \A t \in tlb : t.page \in Pages

LEMMA EntryIs ==
  /\ Empty \in Entries /\ Empty.state # "present"
  /\ \A rw \in BOOLEAN : Demand(rw) \in Entries /\ Demand(rw).state # "present"
  /\ \A f \in Frames \cup Devices, rw, cow \in BOOLEAN : Present(f, rw, cow) \in Entries
  /\ \A f, rw, cow : /\ Present(f, rw, cow).state = "present" /\ Present(f, rw, cow).frame = f
                     /\ Present(f, rw, cow).rw = rw /\ Present(f, rw, cow).cow = cow
<1>1. /\ Empty \in Entries
      /\ \A rw \in BOOLEAN : Demand(rw) \in Entries
      /\ \A f \in Frames \cup Devices, rw, cow \in BOOLEAN : Present(f, rw, cow) \in Entries
  BY DEF Entries
<1>2. /\ Empty.state # "present" /\ \A rw : Demand(rw).state # "present"
      /\ \A f, rw, cow : /\ Present(f, rw, cow).state = "present" /\ Present(f, rw, cow).frame = f
                         /\ Present(f, rw, cow).rw = rw /\ Present(f, rw, cow).cow = cow
  BY DEF Empty, Demand, Present
<1> QED
  BY <1>1, <1>2

LEMMA PresentType ==
  ASSUME NEW f \in Frames \cup Devices, NEW rw \in BOOLEAN, NEW cow \in BOOLEAN
  PROVE  Present(f, rw, cow) \in Entries
BY DEF Entries

LEMMA EntryType ==
  ASSUME NEW e \in Entries
  PROVE  /\ e.state = "present" => /\ e.frame \in Frames \cup Devices
                                   /\ e.rw \in BOOLEAN /\ e.cow \in BOOLEAN
         /\ e.state = "demand" => e.rw \in BOOLEAN
<1>1. CASE e = Empty
  BY <1>1 DEF Empty
<1>2. ASSUME NEW rw \in BOOLEAN, e = Demand(rw)
      PROVE  e.state = "demand" /\ e.rw \in BOOLEAN
  BY <1>2 DEF Demand
<1>3. ASSUME NEW f \in Frames \cup Devices, NEW rw \in BOOLEAN, NEW cow \in BOOLEAN,
             e = Present(f, rw, cow)
      PROVE  e.state = "present" /\ e.frame \in Frames \cup Devices
             /\ e.rw \in BOOLEAN /\ e.cow \in BOOLEAN
  BY <1>3 DEF Present
<1> QED
  BY <1>1, <1>2, <1>3 DEF Entries

LEMMA WithoutIs ==
  ASSUME NEW P
  PROVE  \A t : t \in Without(P) <=> t \in tlb /\ t.page \notin P
BY DEF Without

-----------------------------------------------------------------------------
(* What a clone leaves of the source's entries, and the copies.            *)
Sourced(e) ==
  IF e.state = "present" /\ e.frame \in Frames /\ e.rw THEN Present(e.frame, FALSE, TRUE) ELSE e

LEMMA CloneEntries ==
  ASSUME TlbType, NEW src \in Heaps, NEW dst \in Heaps, CloneHeap(src, dst)
  PROVE  /\ src # dst /\ dst # current
         /\ \A x \in Heaps, q \in Pages :
              entry'[x][q] = IF x = src THEN Sourced(entry[src][q])
                             ELSE IF x = dst THEN CloneOf(entry[src][q]) ELSE entry[x][q]
<1>1. src \in live /\ dst \notin live /\ src # dst
  BY DEF CloneHeap
<1>2. dst # current
  BY TranslationAssumption, <1>1 DEF TlbType
<1>3. ASSUME NEW q \in Pages
      PROVE  (IF q \in WritablePages(src) THEN Present(entry[src][q].frame, FALSE, TRUE)
              ELSE entry[src][q]) = Sourced(entry[src][q])
  BY DEF Sourced, WritablePages, IsPresent
<1>4. entry' = [entry EXCEPT
        ![dst] = [p \in Pages |-> CloneOf(entry[src][p])],
        ![src] = [p \in Pages |-> IF p \in WritablePages(src)
                                  THEN Present(entry[src][p].frame, FALSE, TRUE)
                                  ELSE entry[src][p]]]
  BY DEF CloneHeap
<1>5. ASSUME NEW x \in Heaps, NEW q \in Pages
      PROVE  entry'[x][q] = IF x = src THEN Sourced(entry[src][q])
                            ELSE IF x = dst THEN CloneOf(entry[src][q]) ELSE entry[x][q]
  BY <1>1, <1>3, <1>4 DEF TlbType
<1> QED
  BY <1>1, <1>2, <1>5

LEMMA CloneTypes ==
  ASSUME NEW e \in Entries
  PROVE  CloneOf(e) \in Entries /\ Sourced(e) \in Entries
BY EntryIs, EntryType DEF CloneOf, Sourced

LEMMA CloneRights ==
  ASSUME NEW e \in Entries
  PROVE  /\ CloneOf(e).state = e.state /\ Sourced(e).state = e.state
         /\ e.state = "present" =>
              /\ CloneOf(e).frame = e.frame /\ Sourced(e).frame = e.frame
              /\ e.frame \in Frames => ~CloneOf(e).rw /\ ~Sourced(e).rw
<1>1. CASE e.state = "present" /\ e.frame \in Frames
  <2>1. e.rw \in BOOLEAN
    BY <1>1, EntryType
  <2>2. CloneOf(e) = Present(e.frame, FALSE, e.rw)
    BY <1>1 DEF CloneOf
  <2>3. CASE e.rw
    BY <1>1, <2>2, <2>3 DEF Sourced, Present
  <2>4. CASE ~e.rw
    BY <1>1, <2>2, <2>4 DEF Sourced, Present
  <2> QED
    BY <2>3, <2>4
<1>2. CASE ~(e.state = "present" /\ e.frame \in Frames)
  BY <1>2 DEF CloneOf, Sourced
<1> QED
  BY <1>1, <1>2

(* One page of a heap gets a new entry.                                    *)
OnePage(h, p, new) == entry' = [entry EXCEPT ![h][p] = new]

LEMMA OnePageIs ==
  ASSUME TlbType, NEW h \in Heaps, NEW p \in Pages, NEW new, OnePage(h, p, new)
  PROVE  \A x \in Heaps, q \in Pages :
           entry'[x][q] = IF x = h /\ q = p THEN new ELSE entry[x][q]
BY DEF TlbType, OnePage

(* All pages of a heap lose theirs.                                        *)
NoPages(h) == entry' = [entry EXCEPT ![h] = [p \in Pages |-> Empty]]

LEMMA NoPagesIs ==
  ASSUME TlbType, NEW h \in Heaps, NoPages(h)
  PROVE  \A x \in Heaps, q \in Pages :
           entry'[x][q] = IF x = h THEN Empty ELSE entry[x][q]
BY DEF TlbType, NoPages

LEMMA LaidType ==
  ASSUME NEW e \in Entries, NEW new \in Entries
  PROVE  Laid(e, new) \in Entries
BY EntryIs, EntryType DEF Laid

-----------------------------------------------------------------------------
(***************************************************************************)
(* A step sets one page's entry and invalidates the page, kills entries    *)
(* and leaves their translations, clones a heap, caches, or switches to    *)
(* another heap.                                                           *)
(***************************************************************************)
(* No other page maps the frame of the new entry.                          *)
Alone(h, p, new) ==
  new.state = "present" /\ new.frame \in Frames =>
    \A x \in Heaps, q \in Pages :
      IsPresent(x, q) /\ entry[x][q].frame = new.frame => x = h /\ q = p

Sets(h, p, new) ==
  /\ OnePage(h, p, new) /\ new \in Entries /\ Alone(h, p, new)
  /\ stale' = stale \ {p}
  /\ \A t \in tlb' :
       \/ t \in Without({p})
       \/ h = current /\ new.state = "present" /\ t = [page |-> p, frame |-> new.frame, rw |-> new.rw]
  /\ UNCHANGED <<live, current>>

(* The pages P of a heap that is not in use, or that become stale.         *)
Kills(h, P) ==
  /\ \A x \in Heaps, q \in Pages :
       entry'[x][q] = IF x = h /\ q \in P THEN Empty ELSE entry[x][q]
  /\ entry' \in [Heaps -> [Pages -> Entries]]
  /\ h # current \/ \A p \in P : IsPresent(h, p) => p \in stale'
  /\ tlb' = tlb /\ stale \subseteq stale'
  /\ live' \subseteq Heaps /\ current \in live' \cup {NoHeap} /\ UNCHANGED current

Caches ==
  /\ UNCHANGED <<entry, stale, current>>
  /\ live' \subseteq Heaps /\ live \subseteq live'
  /\ \A t \in tlb' :
       \/ t \in tlb
       \/ /\ current # NoHeap /\ t.page \in Pages /\ IsPresent(current, t.page)
          /\ t.frame = entry[current][t.page].frame /\ t.rw = entry[current][t.page].rw

Switches ==
  /\ UNCHANGED <<entry, live>>
  /\ tlb' = {} /\ current' \in live \cup {NoHeap}

TlbStep ==
  \/ \E h \in Heaps, p \in Pages, new \in Entries : Sets(h, p, new)
  \/ \E h \in Heaps, P \in SUBSET Pages : Kills(h, P)
  \/ \E src, dst \in Heaps : CloneHeap(src, dst)
  \/ Caches
  \/ Switches

LEMMA MapShape ==
  ASSUME TlbType, NEW h \in Heaps, NEW p \in Pages, NEW rw \in BOOLEAN,
         MapPage(h, p, Demand(rw)) \/ \E d \in Devices : MapPage(h, p, Present(d, rw, FALSE))
  PROVE  TlbStep
<1>1. entry[h][p] \in Entries
  BY DEF TlbType
<1>2. ASSUME NEW new \in Entries, MapPage(h, p, new),
             new.state = "present" => new.frame \notin Frames,
             Laid(entry[h][p], new).state = "present" => Laid(entry[h][p], new).frame \notin Frames
      PROVE  TlbStep
  <2>1. entry' = [entry EXCEPT ![h][p] = Laid(entry[h][p], new)]
    BY <1>2 DEF MapPage
  <2>2. Laid(entry[h][p], new) \in Entries
    BY <1>1, LaidType
  <2>3. Sets(h, p, Laid(entry[h][p], new))
    BY <1>2, <2>1, <2>2 DEF MapPage, Sets, OnePage, Invalidate, Alone
  <2> QED
    BY <2>2, <2>3 DEF TlbStep
<1>3. CASE MapPage(h, p, Demand(rw))
  <2>1. Laid(entry[h][p], Demand(rw)).state # "present"
    BY EntryIs, EntryType, <1>1 DEF Laid
  <2> QED
    BY <1>2, <1>3, <2>1, EntryIs
<1>4. ASSUME NEW d \in Devices, MapPage(h, p, Present(d, rw, FALSE))
      PROVE  TlbStep
  <2>1. Laid(entry[h][p], Present(d, rw, FALSE)) = Present(d, rw, FALSE)
    BY EntryIs DEF Laid
  <2>2. Present(d, rw, FALSE) \in Entries
    BY PresentType
  <2>3. Present(d, rw, FALSE).frame \notin Frames
    BY TranslationAssumption DEF Present
  <2> QED
    BY <1>2, <1>4, <2>1, <2>2, <2>3
<1> QED
  BY <1>3, <1>4

LEMMA MapperIs ==
  ASSUME NEW f, NEW x \in Heaps, NEW q \in Pages
  PROVE  <<x, q>> \in Mappers(f) <=> IsPresent(x, q) /\ entry[x][q].frame = f
BY DEF Mappers

LEMMA DemandShape ==
  ASSUME TlbType, NEW p \in Pages, DemandFault(p)
  PROVE  TlbStep
<1>1. current \in Heaps /\ entry[current][p] \in Entries /\ entry[current][p].state = "demand"
  BY DEF DemandFault, TlbType
<1>2. PICK f \in Requested : entry' = [entry EXCEPT ![current][p] = Present(f, @.rw, FALSE)]
  BY DEF DemandFault
<1> DEFINE new == Present(f, entry[current][p].rw, FALSE)
<1>3. f \in Frames /\ Mappers(f) = {}
  BY DEF Requested, FreeFrames
<1>4. new \in Entries /\ new.frame = f
  <2>1. entry[current][p].rw \in BOOLEAN
    BY <1>1, EntryType
  <2>2. new \in Entries
    BY <1>3, <2>1, PresentType
  <2> QED
    BY <2>2 DEF Present
<1>5. OnePage(current, p, new)
  BY <1>2 DEF OnePage
<1>6. Alone(current, p, new)
  BY <1>3, <1>4, MapperIs DEF Alone
<1> HIDE DEF new
<1>7. Sets(current, p, new)
  BY <1>4, <1>5, <1>6 DEF DemandFault, Sets, Invalidate
<1> QED
  BY <1>1, <1>4, <1>7 DEF TlbStep

LEMMA NotSharedIs ==
  ASSUME NEW h \in Heaps, NEW p \in Pages, IsPresent(h, p), ~IsShared(h, p),
         entry[h][p].frame \in Frames, NEW x \in Heaps, NEW q \in Pages,
         IsPresent(x, q), entry[x][q].frame = entry[h][p].frame
  PROVE  x = h /\ q = p
<1>1. Mappers(entry[h][p].frame) = {<<h, p>>}
  BY DEF IsShared
<1>2. <<x, q>> \in Mappers(entry[h][p].frame)
  BY MapperIs
<1> QED
  BY <1>1, <1>2

LEMMA ReuseShape ==
  ASSUME TlbType, NEW p \in Pages, CowReuse(p)
  PROVE  TlbStep
<1>1. current \in Heaps /\ entry[current][p] \in Entries /\ IsPresent(current, p)
  BY DEF CowReuse, IsCow, TlbType
<1> DEFINE f   == entry[current][p].frame
           new == Present(f, TRUE, FALSE)
<1>2. new \in Entries /\ new.frame = f
  <2>1. f \in Frames \cup Devices
    BY <1>1, EntryType DEF IsPresent
  <2>2. new \in Entries
    BY <2>1, PresentType
  <2> QED
    BY <2>2 DEF Present
<1>3. Alone(current, p, new)
  BY <1>1, <1>2, NotSharedIs DEF CowReuse, Alone
<1>4. OnePage(current, p, new)
  BY DEF CowReuse, OnePage
<1> HIDE DEF new
<1>5. Sets(current, p, new)
  BY <1>2, <1>3, <1>4 DEF CowReuse, Sets, Invalidate
<1> QED
  BY <1>1, <1>2, <1>5 DEF TlbStep

LEMMA CopyShape ==
  ASSUME TlbType, NEW p \in Pages, CowCopy(p)
  PROVE  TlbStep
<1>1. current \in Heaps
  BY DEF CowCopy, IsCow, TlbType
<1>2. PICK f \in Requested :
        /\ entry' = [entry EXCEPT ![current][p] = Present(f, TRUE, FALSE)]
        /\ tlb' = Without({p}) \cup {[page |-> p, frame |-> f, rw |-> TRUE]}
        /\ stale' = stale \ {p}
  BY DEF CowCopy
<1> DEFINE new == Present(f, TRUE, FALSE)
<1>3. f \in Frames /\ Mappers(f) = {}
  BY DEF Requested, FreeFrames
<1>4. new \in Entries /\ new.frame = f /\ new.state = "present" /\ new.rw = TRUE
  <2>1. new \in Entries
    BY <1>3, PresentType
  <2> QED
    BY <2>1 DEF Present
<1>5. OnePage(current, p, new)
  BY <1>2 DEF OnePage
<1>6. Alone(current, p, new)
  BY <1>3, <1>4, MapperIs DEF Alone
<1> HIDE DEF new
<1>7. Sets(current, p, new)
  BY <1>2, <1>4, <1>5, <1>6 DEF CowCopy, Sets
<1> QED
  BY <1>1, <1>4, <1>7 DEF TlbStep

(* An entry is killed: with its address, or by a path that has none.       *)
LEMMA RemoveShape ==
  ASSUME TlbType, NEW h \in Heaps, NEW p \in Pages, RemoveMapping(h, p)
  PROVE  TlbStep
<1>1. OnePage(h, p, Empty)
  BY DEF RemoveMapping, OnePage
<1>2. CASE p # 0
  <2>1. Sets(h, p, Empty)
    BY <1>1, <1>2, EntryIs DEF RemoveMapping, Sets, Alone, Invalidate
  <2> QED
    BY <2>1, EntryIs DEF TlbStep
<1>3. CASE p = 0
  <2>1. \A x \in Heaps, q \in Pages :
          entry'[x][q] = IF x = h /\ q \in {p} THEN Empty ELSE entry[x][q]
    BY <1>1, OnePageIs
  <2>2. entry' \in [Heaps -> [Pages -> Entries]]
    BY <1>1, EntryIs DEF TlbType, OnePage
  <2>3. Kills(h, {p})
    BY <1>3, <2>1, <2>2 DEF RemoveMapping, Kills, InUse, TlbType
  <2> QED
    BY <2>3 DEF TlbStep
<1> QED
  BY <1>2, <1>3

LEMMA KillHeapShape ==
  ASSUME TlbType, NEW h \in Heaps, KillHeap(h) \/ RemovePageTable(h)
  PROVE  TlbStep
<1>1. NoPages(h)
  BY DEF KillHeap, RemovePageTable, NoPages
<1>2. \A x \in Heaps, q \in Pages :
        entry'[x][q] = IF x = h /\ q \in Pages THEN Empty ELSE entry[x][q]
  BY <1>1, NoPagesIs
<1>3. entry' \in [Heaps -> [Pages -> Entries]]
  BY <1>1, EntryIs DEF TlbType, NoPages
<1>4. Kills(h, Pages)
  <2>1. CASE KillHeap(h)
    BY <1>2, <1>3, <2>1 DEF KillHeap, Kills, TlbType
  <2>2. CASE RemovePageTable(h)
    BY <1>2, <1>3, <2>2 DEF RemovePageTable, Kills, InUse, TlbType
  <2> QED
    BY <2>1, <2>2
<1> QED
  BY <1>4 DEF TlbStep

LEMMA CacheShape ==
  ASSUME TlbType,
         \/ \E p \in Pages : Fill(p) \/ Evict(p)
         \/ \E h \in Heaps : CreateHeap(h)
         \/ UNCHANGED tlbVars
  PROVE  TlbStep
<1>1. Caches
  <2>1. ASSUME NEW p \in Pages, Fill(p)
        PROVE  Caches
    BY <2>1, WithoutIs DEF Fill, Caches, TlbType
  <2>2. ASSUME NEW p \in Pages, Evict(p)
        PROVE  Caches
    BY <2>2, WithoutIs DEF Evict, Caches, TlbType
  <2>3. ASSUME NEW h \in Heaps, CreateHeap(h)
        PROVE  Caches
    BY <2>3 DEF CreateHeap, Caches, TlbType
  <2>4. CASE UNCHANGED tlbVars
    BY <2>4 DEF tlbVars, Caches, TlbType
  <2> QED
    BY <2>1, <2>2, <2>3, <2>4
<1> QED
  BY <1>1 DEF TlbStep

LEMMA TlbShape ==
  ASSUME TlbType, [TlbNext]_tlbVars
  PROVE  TlbStep
<1>1. ASSUME NEW h \in Heaps \cup {NoHeap}, UseHeap(h)
      PROVE  TlbStep
  BY <1>1 DEF UseHeap, Flushed, TlbStep, Switches
<1>2. ASSUME NEW h \in Heaps, NEW copy \in Heaps, CloneHeap(h, copy)
      PROVE  TlbStep
  BY <1>2 DEF TlbStep
<1>3. ASSUME NEW p \in Pages, DemandFault(p) \/ CowReuse(p) \/ CowCopy(p)
      PROVE  TlbStep
  BY <1>3, DemandShape, ReuseShape, CopyShape
<1>4. ASSUME NEW h \in Heaps, NEW p \in Pages, NEW rw \in BOOLEAN,
             MapPage(h, p, Demand(rw)) \/ \E d \in Devices : MapPage(h, p, Present(d, rw, FALSE))
      PROVE  TlbStep
  BY <1>4, MapShape
<1>5. ASSUME NEW h \in Heaps, NEW p \in Pages, RemoveMapping(h, p)
      PROVE  TlbStep
  BY <1>5, RemoveShape
<1>6. ASSUME NEW h \in Heaps, KillHeap(h) \/ RemovePageTable(h)
      PROVE  TlbStep
  BY <1>6, KillHeapShape
<1>7. ASSUME \/ \E p \in Pages : Fill(p) \/ Evict(p)
             \/ \E h \in Heaps : CreateHeap(h)
             \/ UNCHANGED tlbVars
      PROVE  TlbStep
  BY <1>7, CacheShape
<1> QED
  BY <1>1, <1>2, <1>3, <1>4, <1>5, <1>6, <1>7 DEF TlbNext

-----------------------------------------------------------------------------
(***************************************************************************)
(* The inductive invariant: a translation holds, and a page that can be    *)
(* written to is the only one on its frame.                                *)
(***************************************************************************)
WritableAlone ==
  \A h, x \in Heaps, p, q \in Pages :
    /\ IsPresent(h, p) /\ entry[h][p].frame \in Frames /\ entry[h][p].rw
    /\ IsPresent(x, q) /\ entry[x][q].frame = entry[h][p].frame
    => x = h /\ q = p

TlbInv == TlbType /\ TranslationsHold /\ WritableAlone

LEMMA SetsInv ==
  ASSUME TlbInv, NEW h \in Heaps, NEW p \in Pages, NEW new \in Entries, Sets(h, p, new)
  PROVE  TlbInv'
<1>1. \A x \in Heaps, q \in Pages :
        entry'[x][q] = IF x = h /\ q = p THEN new ELSE entry[x][q]
  BY OnePageIs DEF Sets, TlbInv
<1>2. TlbType'
  <2>1. entry' \in [Heaps -> [Pages -> Entries]]
    BY DEF Sets, OnePage, TlbInv, TlbType
  <2>2. \A t \in tlb' : t.page \in Pages
    BY WithoutIs DEF Sets, TlbInv, TlbType
  <2> QED
    BY <2>1, <2>2 DEF Sets, TlbInv, TlbType
<1>3. TranslationsHold'
  <2> SUFFICES ASSUME NEW t \in tlb', t.page \notin stale'
               PROVE  /\ current # NoHeap /\ IsPresent(current, t.page)'
                      /\ entry'[current][t.page].frame = t.frame
                      /\ t.rw => entry'[current][t.page].rw
    BY DEF Sets, TranslationsHold
  <2>1. CASE t \in Without({p})
    <3>1. t \in tlb /\ t.page # p /\ t.page \notin stale /\ t.page \in Pages
      BY <2>1, WithoutIs DEF Sets, TlbInv, TlbType
    <3>2. /\ current # NoHeap /\ IsPresent(current, t.page) /\ entry[current][t.page].frame = t.frame
          /\ t.rw => entry[current][t.page].rw
      BY <3>1 DEF TlbInv, TranslationsHold
    <3>3. entry'[current][t.page] = entry[current][t.page]
      BY <1>1, <3>1, <3>2 DEF TlbInv, TlbType
    <3> QED
      BY <3>2, <3>3 DEF IsPresent, Sets
  <2>2. CASE h = current /\ new.state = "present" /\ t = [page |-> p, frame |-> new.frame, rw |-> new.rw]
    <3>1. entry'[current][t.page] = new /\ current # NoHeap
      BY TranslationAssumption, <1>1, <2>2 DEF TlbInv, TlbType
    <3> QED
      BY <2>2, <3>1 DEF IsPresent, Sets
  <2> QED
    BY <2>1, <2>2 DEF Sets
<1>4. WritableAlone'
  <2> SUFFICES ASSUME NEW y \in Heaps, NEW x \in Heaps, NEW r \in Pages, NEW q \in Pages,
                      entry'[y][r].state = "present", entry'[y][r].frame \in Frames, entry'[y][r].rw,
                      entry'[x][q].state = "present", entry'[x][q].frame = entry'[y][r].frame
               PROVE  x = y /\ q = r
    BY DEF WritableAlone, IsPresent
  <2>1. CASE y = h /\ r = p /\ ~(x = h /\ q = p)
    BY <1>1, <2>1 DEF Sets, Alone, IsPresent
  <2>2. CASE x = h /\ q = p /\ ~(y = h /\ r = p)
    BY <1>1, <2>2 DEF Sets, Alone, IsPresent
  <2>3. CASE ~(x = h /\ q = p) /\ ~(y = h /\ r = p)
    BY <1>1, <2>3 DEF TlbInv, WritableAlone, IsPresent
  <2> QED
    BY <2>1, <2>2, <2>3
<1> QED
  BY <1>2, <1>3, <1>4 DEF TlbInv

(* Entries that go make no page lose its place to another.                 *)
LEMMA FewerAlone ==
  ASSUME WritableAlone,
         \A x \in Heaps, q \in Pages :
           entry'[x][q] = entry[x][q] \/ entry'[x][q].state # "present"
  PROVE  WritableAlone'
BY DEF WritableAlone, IsPresent

LEMMA KillsInv ==
  ASSUME TlbInv, NEW h \in Heaps, NEW P \in SUBSET Pages, Kills(h, P)
  PROVE  TlbInv'
<1>1. \A x \in Heaps, q \in Pages :
        entry'[x][q] = IF x = h /\ q \in P THEN Empty ELSE entry[x][q]
  BY DEF Kills
<1>2. TlbType'
  BY DEF Kills, TlbInv, TlbType
<1>3. TranslationsHold'
  <2> SUFFICES ASSUME NEW t \in tlb, t.page \notin stale'
               PROVE  /\ current # NoHeap /\ IsPresent(current, t.page)'
                      /\ entry'[current][t.page].frame = t.frame
                      /\ t.rw => entry'[current][t.page].rw
    BY DEF Kills, TranslationsHold
  <2>1. t.page \notin stale /\ t.page \in Pages
    BY DEF Kills, TlbInv, TlbType
  <2>2. /\ current # NoHeap /\ IsPresent(current, t.page) /\ entry[current][t.page].frame = t.frame
        /\ t.rw => entry[current][t.page].rw
    BY <2>1 DEF TlbInv, TranslationsHold
  <2>3. entry'[current][t.page] = entry[current][t.page]
    BY <1>1, <2>1, <2>2 DEF Kills, TlbInv, TlbType
  <2> QED
    BY <2>2, <2>3 DEF IsPresent, Kills
<1>4. WritableAlone'
  BY <1>1, EntryIs, FewerAlone DEF TlbInv
<1> QED
  BY <1>2, <1>3, <1>4 DEF TlbInv

(* A clone takes the right to write from the pages it shares, and their    *)
(* translations.                                                           *)
LEMMA ClonesInv ==
  ASSUME TlbInv, NEW src \in Heaps, NEW dst \in Heaps, CloneHeap(src, dst)
  PROVE  TlbInv'
<1>1. /\ TlbType /\ src # dst /\ dst # current
      /\ \A x \in Heaps, q \in Pages :
           entry'[x][q] = IF x = src THEN Sourced(entry[src][q])
                          ELSE IF x = dst THEN CloneOf(entry[src][q]) ELSE entry[x][q]
  BY CloneEntries DEF TlbInv
<1>2. \A t : t \in tlb' <=> t \in tlb /\ t.page \notin WritablePages(src)
  BY WithoutIs DEF CloneHeap, Invalidate, Invalidated
<1>3. \A q \in Pages : entry[src][q] \in Entries
  BY <1>1 DEF TlbType
<1>4. TlbType'
  <2>1. entry' \in [Heaps -> [Pages -> Entries]]
    <3>1. \A q \in Pages : CloneOf(entry[src][q]) \in Entries /\ Sourced(entry[src][q]) \in Entries
      BY <1>3, CloneTypes
    <3> DEFINE copies  == [p \in Pages |-> CloneOf(entry[src][p])]
               sources == [p \in Pages |-> IF p \in WritablePages(src)
                                           THEN Present(entry[src][p].frame, FALSE, TRUE)
                                           ELSE entry[src][p]]
    <3>3. entry' = [entry EXCEPT ![dst] = copies, ![src] = sources]
      BY DEF CloneHeap
    <3>4. copies \in [Pages -> Entries]
      BY <3>1
    <3>5. sources \in [Pages -> Entries]
      BY <3>1 DEF Sourced, WritablePages, IsPresent
    <3> HIDE DEF copies, sources
    <3> QED
      BY <1>1, <3>3, <3>4, <3>5 DEF TlbType
  <2> QED
    BY <1>1, <1>2, <2>1 DEF CloneHeap, TlbType
<1>5. TranslationsHold'
  <2> SUFFICES ASSUME NEW t \in tlb', t.page \notin stale'
               PROVE  /\ current # NoHeap /\ IsPresent(current, t.page)'
                      /\ entry'[current][t.page].frame = t.frame
                      /\ t.rw => entry'[current][t.page].rw
    BY DEF CloneHeap, TranslationsHold
  <2>1. t \in tlb /\ t.page \notin WritablePages(src) /\ t.page \notin stale /\ t.page \in Pages
    BY <1>1, <1>2 DEF CloneHeap, Invalidate, Invalidated, TlbType
  <2>2. /\ current # NoHeap /\ IsPresent(current, t.page) /\ entry[current][t.page].frame = t.frame
        /\ t.rw => entry[current][t.page].rw
    BY <2>1 DEF TlbInv, TranslationsHold
  <2>3. entry'[current][t.page] = entry[current][t.page]
    <3>1. current \in Heaps
      BY <1>1, <2>2 DEF TlbType
    <3>2. CASE current = src
      <4>1. ~(entry[src][t.page].frame \in Frames /\ entry[src][t.page].rw)
        BY <2>1, <2>2, <3>2 DEF WritablePages
      <4> QED
        BY <1>1, <2>1, <3>1, <3>2, <4>1 DEF Sourced
    <3>3. CASE current # src
      BY <1>1, <2>1, <3>1, <3>3
    <3> QED
      BY <3>2, <3>3
  <2> QED
    BY <2>2, <2>3 DEF IsPresent, CloneHeap
<1>6. WritableAlone'
  <2>1. ASSUME NEW q \in Pages
        PROVE  /\ CloneOf(entry[src][q]).state = entry[src][q].state
               /\ Sourced(entry[src][q]).state = entry[src][q].state
               /\ entry[src][q].state = "present" =>
                    /\ CloneOf(entry[src][q]).frame = entry[src][q].frame
                    /\ Sourced(entry[src][q]).frame = entry[src][q].frame
                    /\ entry[src][q].frame \in Frames =>
                         ~CloneOf(entry[src][q]).rw /\ ~Sourced(entry[src][q]).rw
    BY <1>3, CloneRights
  <2> SUFFICES ASSUME NEW y \in Heaps, NEW x \in Heaps, NEW r \in Pages, NEW q \in Pages,
                      entry'[y][r].state = "present", entry'[y][r].frame \in Frames, entry'[y][r].rw,
                      entry'[x][q].state = "present", entry'[x][q].frame = entry'[y][r].frame
               PROVE  x = y /\ q = r
    BY DEF WritableAlone, IsPresent
  <2>2. y # src /\ y # dst /\ entry'[y][r] = entry[y][r]
    BY <1>1, <2>1
  <2>3. CASE x = src \/ x = dst
    <3>1. entry[src][q].state = "present" /\ entry[src][q].frame = entry[y][r].frame
      BY <1>1, <2>1, <2>2, <2>3
    <3> QED
      BY <2>2, <3>1 DEF TlbInv, WritableAlone, IsPresent
  <2>4. CASE x # src /\ x # dst
    BY <1>1, <2>2, <2>4 DEF TlbInv, WritableAlone, IsPresent
  <2> QED
    BY <2>3, <2>4
<1> QED
  BY <1>4, <1>5, <1>6 DEF TlbInv

LEMMA CachesInv ==
  ASSUME TlbInv, Caches
  PROVE  TlbInv'
<1>1. TlbType'
  BY DEF Caches, TlbInv, TlbType
<1>2. TranslationsHold'
  BY DEF Caches, TlbInv, TlbType, TranslationsHold, IsPresent
<1>3. WritableAlone'
  BY DEF Caches, TlbInv, WritableAlone, IsPresent
<1> QED
  BY <1>1, <1>2, <1>3 DEF TlbInv

LEMMA SwitchesInv ==
  ASSUME TlbInv, Switches
  PROVE  TlbInv'
<1>1. TlbType' /\ TranslationsHold'
  BY DEF Switches, TlbInv, TlbType, TranslationsHold
<1>2. WritableAlone'
  BY DEF Switches, TlbInv, WritableAlone, IsPresent
<1> QED
  BY <1>1, <1>2 DEF TlbInv

LEMMA TlbInvStep ==
  ASSUME TlbInv, [TlbNext]_tlbVars
  PROVE  TlbInv'
BY TlbShape, SetsInv, KillsInv, ClonesInv, CachesInv, SwitchesInv
   DEF TlbInv, TlbStep

LEMMA TlbInvInit ==
  ASSUME TlbInit
  PROVE  TlbInv
<1>1. \A h \in Heaps, p \in Pages : entry[h][p] = Empty
  BY DEF TlbInit
<1>2. TlbType
  BY EntryIs DEF TlbInit, TlbType
<1>3. WritableAlone
  BY <1>1, EntryIs DEF WritableAlone, IsPresent
<1> QED
  BY <1>2, <1>3 DEF TlbInit, TlbInv, TranslationsHold

LEMMA TlbCorrect == TlbSpec => []TlbInv
BY TlbInvInit, TlbInvStep, PTL DEF TlbSpec

(***************************************************************************)
(* What the processor has cached is what the heap in use says, through     *)
(* every clone, fault, mapping and switch of heaps: only the paths of      *)
(* mm/uheap.c that kill an entry without its address (page zero, a page    *)
(* table) leave a translation behind.                                      *)
(***************************************************************************)
THEOREM TranslationsStay == TlbSpec => []TranslationsHold
<1>1. TlbInv => TranslationsHold
  BY DEF TlbInv
<1> QED
  BY <1>1, TlbCorrect, PTL

(***************************************************************************)
(* No write sneaks in after a clone: what the processor can write to       *)
(* without a fault, no other page of any heap maps, but for those paths.   *)
(***************************************************************************)
THEOREM WritesStayPrivate == TlbSpec => []NoWriteSneaksIn
<1>1. TlbInv => NoWriteSneaksIn
  <2> SUFFICES ASSUME TlbInv, NEW t \in tlb, t.page \notin stale, t.rw, t.frame \in Frames
               PROVE  Mappers(t.frame) \subseteq {<<current, t.page>>}
    BY DEF NoWriteSneaksIn
  <2>1. /\ current \in Heaps /\ t.page \in Pages /\ IsPresent(current, t.page)
        /\ entry[current][t.page].frame = t.frame /\ entry[current][t.page].rw
    BY DEF TlbInv, TlbType, TranslationsHold
  <2>2. ASSUME NEW x \in Heaps, NEW q \in Pages, <<x, q>> \in Mappers(t.frame)
        PROVE  <<x, q>> = <<current, t.page>>
    BY <2>1, <2>2, MapperIs DEF TlbInv, WritableAlone
  <2>3. Mappers(t.frame) \subseteq Heaps \X Pages
    BY DEF Mappers
  <2> QED
    BY <2>2, <2>3
<1> QED
  BY <1>1, TlbCorrect, PTL

-----------------------------------------------------------------------------
(***************************************************************************)
(* Format: the text and its terminator stay in the buffer of the caller.   *)
(***************************************************************************)
(* The arguments and the padding have their types.                         *)
FormatType ==
  /\ fmt \in Seq(Nat) /\ sz \in Nat \ {0} /\ pos \in Nat \ {0}
  /\ paddingInfo \in Int /\ paddingChar \in Nat

(* What the conversions put together are texts.                            *)
LEMMA Repeated ==
  ASSUME NEW char \in Nat, NEW n \in Int
  PROVE  Repeat(char, n) \in Seq(Nat)
<1>1. CASE n < 0
  <2>1. 1..n = 1..0
    BY <1>1
  <2> QED
    BY <2>1 DEF Repeat
<1>2. CASE n >= 0
  BY <1>2 DEF Repeat
<1> QED
  BY <1>1, <1>2

LEMMA DigitCountIs ==
  ASSUME NEW num \in Int
  PROVE  /\ DigitCount(num) \in 1..MostDigits /\ MostDigits \in Nat
         /\ DigitCount(num) = MostDigits \/ num < 10^DigitCount(num)
         /\ \A m \in 1..DigitCount(num) - 1 : 10^m <= num
<1> DEFINE Ends(n) == n = MostDigits \/ num < 10^n
           Fits(n) == Ends(n) /\ \A m \in 1..n - 1 : 10^m <= num
           S == {n \in 1..MostDigits : Ends(n)}
<1>1. MostDigits \in Nat \ {0}
  BY FormatAssumption DEF MostDigits
<1>2. S \in SUBSET Nat /\ MostDigits \in S
  BY <1>1
<1>3. PICK n \in S : \A j \in S : n <= j
  BY <1>2, LeastOf
<1>4. ASSUME NEW m \in 1..n - 1 PROVE 10^m <= num
  <2>1. m \in 1..MostDigits /\ ~(n <= m)
    BY <1>1, <1>3
  <2>2. ~(num < 10^m) /\ m \in Nat
    BY <1>3, <2>1
  <2>3. 10^m \in Int
    BY <2>2
  <2> QED
    BY <2>2, <2>3
<1>5. n \in 1..MostDigits /\ Fits(n)
  BY <1>3, <1>4
<1>6. DigitCount(num) = CHOOSE k \in 1..MostDigits : Fits(k)
  BY DEF DigitCount
<1> HIDE DEF Fits
<1>7. DigitCount(num) \in 1..MostDigits /\ Fits(DigitCount(num))
  BY <1>5, <1>6
<1> QED
  BY <1>1, <1>7 DEF Fits

LEMMA DigitsAre ==
  ASSUME NEW num \in Nat
  PROVE  Digits(num) \in Seq(Nat)
<1> DEFINE count == DigitCount(num)
<1>1. count \in Nat
  BY DigitCountIs
<1>2. Digits(num) = [k \in 1..count |-> DigitZero + ((num \div 10^(count - k)) % 10)]
  BY DEF Digits
<1> HIDE DEF count
<1>3. ASSUME NEW k \in 1..count
      PROVE  DigitZero + ((num \div 10^(count - k)) % 10) \in Nat
  BY <1>1, <1>3 DEF DigitZero
<1> QED
  BY <1>1, <1>2, <1>3

LEMMA UnsToStrIs ==
  ASSUME NEW num \in Nat, NEW info \in Int, NEW char \in Nat
  PROVE  UnsToStr(num, info, char) \in Seq(Nat)
<1>1. info - DigitCount(num) \in Int
  BY DigitCountIs
<1>2. Repeat(char, info - DigitCount(num)) \in Seq(Nat) /\ Digits(num) \in Seq(Nat)
  BY <1>1, Repeated, DigitsAre
<1> QED
  BY <1>2 DEF UnsToStr

LEMMA IntToStrIs ==
  ASSUME NEW num \in Int, NEW info \in Int, NEW char \in Nat
  PROVE  IntToStr(num, info, char) \in Seq(Nat)
<1>1. CASE num < 0
  <2>1. -num \in Nat
    BY <1>1
  <2>2. UnsToStr(-num, info, char) \in Seq(Nat)
    BY <2>1, UnsToStrIs
  <2>3. <<Minus>> \in Seq(Nat)
    BY DEF Minus
  <2>4. <<Minus>> \o UnsToStr(-num, info, char) \in Seq(Nat)
    BY <2>2, <2>3
  <2> QED
    BY <1>1, <2>4 DEF IntToStr
<1>2. CASE ~(num < 0)
  <2>1. num \in Nat
    BY <1>2
  <2>2. UnsToStr(num, info, char) \in Seq(Nat)
    BY <2>1, UnsToStrIs
  <2> QED
    BY <1>2, <2>2 DEF IntToStr
<1> QED
  BY <1>1, <1>2

LEMMA HexToStrIs ==
  ASSUME NEW num \in Int, NEW count \in Nat, NEW upper \in BOOLEAN
  PROVE  HexToStr(num, count, upper) \in Seq(Nat)
<1>1. ASSUME NEW k \in 1..count
      PROVE  HexChar((num \div 16^(count - k)) % 16, upper) \in Nat
  <2> DEFINE d == (num \div 16^(count - k)) % 16
  <2>1. d \in 0..15
    BY <1>1
  <2> HIDE DEF d
  <2> QED
    BY <2>1 DEF HexChar, DigitZero, Ascii
<1> QED
  BY <1>1 DEF HexToStr

(* The copying loops leave room for the terminator.                        *)
LEMMA PutInBuffer ==
  ASSUME sz \in Nat \ {0}, InBuffer, sz' = sz, NEW text \in Seq(Nat), Put(text)
  PROVE  InBuffer'
<1> DEFINE room == sz - 1 - Len(buf)
           m == IF Len(text) > room THEN room ELSE Len(text)
<1>1. m \in 0..Len(text) /\ m <= room
  BY DEF InBuffer
<1>2. buf' = buf \o SubSeq(text, 1, m)
  BY DEF Put, Room
<1> HIDE DEF m
<1>3. SubSeq(text, 1, m) \in Seq(Nat) /\ Len(SubSeq(text, 1, m)) = m
  BY <1>1
<1>4. buf' \in Seq(Nat) /\ Len(buf') = Len(buf) + m
  BY <1>2, <1>3 DEF InBuffer
<1> QED
  BY <1>1, <1>4 DEF InBuffer

(* Reading on from a character of the format, or from its terminator.      *)
LEMMA AtIs ==
  ASSUME FormatType, NEW k \in Nat \ {0}
  PROVE  At(k) \in Nat
BY DEF At, CharAt, FormatType, Nul

LEMMA DirectiveIs ==
  ASSUME FormatType
  PROVE  /\ Directive.info \in Int /\ Directive.char \in Nat
         /\ Directive.conv \in Nat /\ Directive.next \in Nat \ {0}
<1>1. pos + 1 \in Nat \ {0} /\ pos + 2 \in Nat \ {0} /\ pos + 3 \in Nat \ {0}
  BY DEF FormatType
<1>2. \A k \in Nat \ {0} : At(k) \in Nat
  BY AtIs
<1>3. Digit(At(pos + 1)) \in Int /\ Digit(At(pos + 2)) \in Int
  BY <1>1, <1>2 DEF Digit, DigitZero
<1>4. ASSUME NEW info \in Int, NEW char \in Nat, NEW then \in Nat \ {0}
      PROVE  /\ Read(info, char, then).info \in Int /\ Read(info, char, then).char \in Nat
             /\ Read(info, char, then).conv \in Nat
             /\ Read(info, char, then).next \in Nat \ {0}
  BY <1>2 DEF Read
<1>5. paddingInfo \in Int /\ paddingChar \in Nat /\ DigitZero \in Nat /\ Space \in Nat
  BY DEF FormatType, DigitZero, Space
<1> DEFINE Good(d) == /\ d.info \in Int /\ d.char \in Nat
                      /\ d.conv \in Nat /\ d.next \in Nat \ {0}
<1>6. /\ Good(Read(Digit(At(pos + 2)), DigitZero, pos + 3))
      /\ Good(Read(Digit(At(pos + 1)), paddingChar, pos + 2))
      /\ Good(Read(Digit(At(pos + 1)), Space, pos + 2))
      /\ Good(Read(paddingInfo, paddingChar, pos + 1))
  BY <1>1, <1>3, <1>4, <1>5
<1>7. Good(Directive)
  <2> HIDE DEF Good
  <2>1. Directive \in {Read(Digit(At(pos + 2)), DigitZero, pos + 3),
                       Read(Digit(At(pos + 1)), paddingChar, pos + 2),
                       Read(Digit(At(pos + 1)), Space, pos + 2),
                       Read(paddingInfo, paddingChar, pos + 1)}
    BY DEF Directive
  <2> QED
    BY <1>6, <2>1
<1> QED
  BY <1>7

LEMMA ConvertsKeepsType ==
  ASSUME FormatType, NEW characters, Converts(characters)
  PROVE  FormatType' /\ sz' = sz
BY DirectiveIs DEF Converts, PaddingKept, FormatType

(* The types of arguments that the hexadecimal conversions cut to.         *)
LEMMA HexDigitsAre ==
  ASSUME NEW conv, conv \in {Ascii.b, Ascii.B, Ascii.w, Ascii.W, Ascii.x, Ascii.p, Ascii.X,
                             Ascii.P, Ascii.q, Ascii.Q}
  PROVE  HexDigits(conv) \in Nat
<1>1. /\ WordBits \div 16 \in Nat /\ WordBits \div 8 \in Nat
      /\ WordBits \div 4 \in Nat /\ WordBits \div 2 \in Nat
  BY FormatAssumption
<1> QED
  BY <1>1 DEF HexDigits, Ascii

(* The invariant, and one case for every kind of round.                    *)
FormatInv == FormatType /\ InBuffer

(* The arguments of the unsigned conversions.                              *)
LEMMA UnsignedIs ==
  ASSUME NEW n \in Numbers
  PROVE  n % 2^WordBits \in Nat
<1> DEFINE b == 2^WordBits
<1>1. n \in Int /\ b \in Nat \ {0}
  BY FormatAssumption, PowerType
<1> HIDE DEF b
<1>2. n % b \in Nat
  BY <1>1
<1> QED
  BY <1>2 DEF b

(* What the mask loops write is the digits of the type of the conversion.  *)
LEMMA HexPromised ==
  ASSUME NEW num \in Int, NEW conv,
         conv \in {Ascii.b, Ascii.B, Ascii.w, Ascii.W, Ascii.x, Ascii.p, Ascii.X,
                   Ascii.P, Ascii.q, Ascii.Q}
  PROVE  HexToStr(num, HexDigits(conv),
                  conv \in {Ascii.B, Ascii.W, Ascii.X, Ascii.P, Ascii.Q})
           = PromisedHex(num, conv)
<1> DEFINE high == conv \in {Ascii.B, Ascii.W, Ascii.X, Ascii.P, Ascii.Q}
           places == TypeBits(conv) \div 4
<1>1. HexDigits(conv) = places
  <2>1. /\ WordBits \div 16 = (WordBits \div 4) \div 4 /\ WordBits \div 8 = (WordBits \div 2) \div 4
        /\ WordBits \div 2 = (2 * WordBits) \div 4
    BY FormatAssumption
  <2> QED
    BY <2>1 DEF HexDigits, TypeBits, Ascii
<1>2. ASSUME NEW d \in 0..15
      PROVE  HexChar(d, high) = Hexadecimal(conv)[d]
  BY DEF HexChar, Hexadecimal, Ascii, DigitZero
<1>3. places \in Nat
  BY <1>1, HexDigitsAre
<1> HIDE DEF places, high
<1>4. ASSUME NEW k \in 1..places
      PROVE  HexChar((num \div 16^(places - k)) % 16, high)
               = Hexadecimal(conv)[(num \div 16^(places - k)) % 16]
  <2> DEFINE d == (num \div 16^(places - k)) % 16
  <2>1. d \in 0..15
    BY <1>3
  <2> HIDE DEF d
  <2>2. HexChar(d, high) = Hexadecimal(conv)[d]
    BY <1>2, <2>1
  <2> QED
    BY <2>2 DEF d
<1> QED
  BY <1>1, <1>4 DEF HexToStr, PromisedHex, places, high

LEMMA HexWritten ==
  ASSUME FormatType, ConvertHex
  PROVE  \E text \in Seq(Nat) : Says(text, text) /\ \E characters : Converts(characters)
<1> DEFINE conv == Directive.conv
           upper == {Ascii.B, Ascii.W, Ascii.X, Ascii.P, Ascii.Q}
           lower == {Ascii.b, Ascii.w, Ascii.x, Ascii.p, Ascii.q}
<1>1. PICK num \in IF conv \in {Ascii.q, Ascii.Q} THEN Longs \cap Nat ELSE Numbers :
        Says(HexToStr(num, HexDigits(conv), conv \in upper), PromisedHex(num, conv))
  BY DEF ConvertHex
<1>2. num \in Int
  BY <1>1, FormatAssumption
<1>3. Converts(lower \cup upper) /\ conv \in lower \cup upper
  BY DEF ConvertHex, Converts
<1>4. HexDigits(conv) \in Nat
  BY <1>3, HexDigitsAre
<1> DEFINE count == HexDigits(conv)
           high == conv \in upper
           text == HexToStr(num, count, high)
<1>5. high \in BOOLEAN
  OBVIOUS
<1>6. text \in Seq(Nat)
  <2> HIDE DEF count, high
  <2>1. count \in Nat
    BY <1>4 DEF count
  <2>2. high \in BOOLEAN
    BY <1>5
  <2> QED
    BY <1>2, <2>1, <2>2, HexToStrIs
<1>7. text = PromisedHex(num, conv)
  BY <1>2, <1>3, HexPromised
<1>8. Says(text, text)
  BY <1>1, <1>7
<1> HIDE DEF text
<1> QED
  BY <1>3, <1>6, <1>8

LEMMA FormatInitInv ==
  ASSUME FormatInit
  PROVE  FormatInv
BY FormatAssumption DEF FormatInit, FormatInv, FormatType, InBuffer, Space

LEMMA FormatNextInv ==
  ASSUME FormatInv, [FormatNext]_formatVars
  PROVE  FormatInv'
<1> USE DEF FormatInv
<1>1. ASSUME NEW call \in Calls, NEW size \in Sizes, Call(call, size)
      PROVE  FormatInv'
  BY <1>1, FormatAssumption DEF Call, FormatType, InBuffer, Space
<1>2. CASE Ordinary
  <2>1. At(pos) \in Nat
    BY AtIs DEF FormatType
  <2>2. <<At(pos)>> \in Seq(Nat) /\ sz' = sz
    BY <1>2, <2>1 DEF Ordinary
  <2>3. InBuffer'
    BY <1>2, <2>2, PutInBuffer DEF Ordinary, Says, FormatType
  <2> QED
    BY <1>2, <2>3 DEF Ordinary, FormatType
<1>3. CASE ConvertString
  <2>1. PICK s \in Texts \cup {Null} :
          LET text == IF s = Null THEN NullText ELSE s IN Says(text, text)
    BY <1>3 DEF ConvertString
  <2> DEFINE text == IF s = Null THEN NullText ELSE s
  <2>2. text \in Seq(Nat) /\ Put(text)
    BY <2>1, FormatAssumption DEF NullText, Says
  <2> HIDE DEF text
  <2> QED
    BY <1>3, <2>2, PutInBuffer, ConvertsKeepsType DEF ConvertString, FormatType
<1>4. CASE ConvertPercent
  <2>1. <<PercentSign>> \in Seq(Nat) /\ Put(<<PercentSign>>)
    BY <1>4 DEF ConvertPercent, Says, PercentSign
  <2> QED
    BY <1>4, <2>1, PutInBuffer, ConvertsKeepsType DEF ConvertPercent, FormatType
<1>5. CASE ConvertChar
  <2>1. PICK text \in Texts : text # <<>> /\ Put(<<text[1]>>)
    BY <1>5 DEF ConvertChar, Says
  <2>2. <<text[1]>> \in Seq(Nat)
    BY <2>1, FormatAssumption
  <2> QED
    BY <1>5, <2>1, <2>2, PutInBuffer, ConvertsKeepsType DEF ConvertChar, FormatType
<1>6. ASSUME NEW characters, Converts(characters), NEW num \in Int,
             Put(IntToStr(num, Directive.info, Directive.char))
      PROVE  FormatInv'
  BY <1>6, DirectiveIs, IntToStrIs, PutInBuffer, ConvertsKeepsType DEF FormatType
<1>7. ASSUME NEW characters, Converts(characters), NEW num \in Nat,
             Put(UnsToStr(num, Directive.info, Directive.char))
      PROVE  FormatInv'
  BY <1>7, DirectiveIs, UnsToStrIs, PutInBuffer, ConvertsKeepsType DEF FormatType
<1>8. CASE ConvertInt
  <2>1. ASSUME NEW num \in Numbers \cup Longs PROVE num \in Int
    BY FormatAssumption
  <2> QED
    BY <1>6, <1>8, <2>1 DEF ConvertInt, Says
<1>9. CASE ConvertUnsigned
  <2>1. ASSUME NEW n \in Numbers PROVE n % 2^WordBits \in Nat
    BY UnsignedIs
  <2>2. ASSUME NEW num \in {n % 2^WordBits : n \in Numbers} \cup (Longs \cap Nat)
        PROVE  num \in Nat
    BY <2>1
  <2> QED
    BY <1>7, <1>9, <2>2 DEF ConvertUnsigned, Says
<1>10. CASE ConvertHex
  <2>1. PICK text \in Seq(Nat) : Says(text, text) /\ \E characters : Converts(characters)
    BY <1>10, HexWritten
  <2> QED
    BY <2>1, PutInBuffer, ConvertsKeepsType DEF FormatType, Says
<1>11. CASE IgnoreUnknown
  BY <1>11, ConvertsKeepsType DEF IgnoreUnknown, InBuffer
<1>12. CASE Finish
  BY <1>12 DEF Finish, FormatType, InBuffer
<1>13. CASE UNCHANGED formatVars
  BY <1>13 DEF formatVars, FormatType, InBuffer
<1> QED
  BY <1>1, <1>2, <1>3, <1>4, <1>5, <1>8, <1>9, <1>10, <1>11, <1>12, <1>13 DEF FormatNext

(***************************************************************************)
(* vsnprintf leaves the text and its terminator inside of the caller's     *)
(* buffer, for every format, every size but zero and all arguments         *)
(* (print.c).                                                              *)
(***************************************************************************)
THEOREM FormatStaysInBuffer == FormatSpec => []InBuffer
<1>1. FormatInit => FormatInv
  BY FormatInitInv
<1>2. FormatInv /\ [FormatNext]_formatVars => FormatInv'
  BY FormatNextInv
<1>3. FormatInv => InBuffer
  BY DEF FormatInv
<1> QED
  BY <1>1, <1>2, <1>3, PTL DEF FormatSpec

-----------------------------------------------------------------------------
(***************************************************************************)
(* Format: the text is what the format asks for.                           *)
(***************************************************************************)
(***************************************************************************)
(* While a call runs, everything promised has been written, and the        *)
(* padding in force is the one of the last conversion in front of pos,     *)
(* inside of which pos is not; a width of zero or less is none.            *)
(***************************************************************************)
Matches(info, char, padding) ==
  \/ info = padding.width /\ char = padding.fill
  \/ info <= 0 /\ padding.width \in Int /\ padding.width <= 0

PaddingInForce(padding, to) ==
  LET before == InFront(DOMAIN asked, to)
  IN /\ \A j \in before : GoesOn(fmt, j) <= to
     /\ before = {} => padding.info <= 0
     /\ \A j \in LastOf(before) : Matches(padding.info, padding.char, asked[j])

Rendering ==
  state = "running" =>
    /\ buf = said /\ Asks(fmt, asked)
    /\ PaddingInForce([info |-> paddingInfo, char |-> paddingChar], pos)

RenderInv == FormatInv /\ Rendering /\ RendersAsAsked

LEMMA SaysAll ==
  ASSUME sz \in Nat \ {0}, InBuffer, buf = said, sz' = sz,
         NEW text \in Seq(Nat), Says(text, text)
  PROVE  (state' = "running" => buf' = said') /\ RendersAsAsked'
<1> DEFINE room == sz - 1 - Len(buf)
<1>1. /\ buf \in Seq(Nat) /\ Len(buf) \in Nat /\ Len(text) \in Nat /\ room \in Nat
      /\ said' = buf \o text
  BY DEF InBuffer, Says
<1>2. /\ buf' = buf \o SubSeq(text, 1, IF Len(text) > room THEN room ELSE Len(text))
      /\ state' = IF Len(text) > room THEN "finished" ELSE "running"
  BY DEF Says, Put, Room
<1>3. said' \in Seq(Nat) /\ Len(said') = Len(buf) + Len(text)
  BY <1>1
<1>4. CASE Len(text) > room
  <2>1. Len(said') >= sz
    BY <1>1, <1>3, <1>4
  <2>2. room \in 0..Len(text) /\ Len(buf) + room = sz - 1
    BY <1>1, <1>4
  <2> HIDE DEF room
  <2> DEFINE part == SubSeq(text, 1, room)
             whole == SubSeq(buf \o text, 1, sz - 1)
  <2>3. part \in Seq(Nat) /\ Len(part) = room /\ \A i \in 1..room : part[i] = text[i]
    BY <2>2
  <2>4. /\ whole \in Seq(Nat) /\ Len(whole) = sz - 1
        /\ \A i \in 1..sz - 1 : whole[i] = (buf \o text)[i]
    <3>1. sz - 1 \in 0..Len(said')
      BY <1>3, <2>1
    <3>2. said' \in Seq(Nat) /\ said' = buf \o text
      BY <1>1, <1>3
    <3> DEFINE m == sz - 1
    <3> HIDE DEF m
    <3>3. m \in 0..Len(said')
      BY <3>1 DEF m
    <3>4. /\ SubSeq(said', 1, m) \in Seq(Nat) /\ Len(SubSeq(said', 1, m)) = m
          /\ \A i \in 1..m : SubSeq(said', 1, m)[i] = said'[i]
      BY <3>2, <3>3, SMTT(30)
    <3> QED
      BY <3>2, <3>4 DEF m
  <2> HIDE DEF part, whole
  <2>5. buf \o part \in Seq(Nat) /\ Len(buf \o part) = sz - 1
    BY <1>1, <2>2, <2>3
  <2>6. ASSUME NEW i \in 1..sz - 1
        PROVE  (buf \o part)[i] = whole[i]
    <3>1. CASE i <= Len(buf)
      BY <1>1, <2>3, <2>4, <3>1
    <3>2. CASE ~(i <= Len(buf))
      <4>1. i - Len(buf) \in 1..room /\ i - Len(buf) \in 1..Len(text)
        BY <1>1, <2>2, <3>2
      <4>2. (buf \o part)[i] = part[i - Len(buf)]
        BY <1>1, <2>2, <2>3, <3>2
      <4>3. (buf \o text)[i] = text[i - Len(buf)]
        BY <1>1, <2>2, <3>2
      <4> QED
        BY <2>3, <2>4, <4>1, <4>2, <4>3
    <3> QED
      BY <3>1, <3>2
  <2>7. buf \o part = whole
    <3> DEFINE s == buf \o part
               m == sz - 1
    <3>1. s \in Seq(Nat) /\ whole \in Seq(Nat) /\ Len(s) = m /\ Len(whole) = m
          /\ \A i \in 1..m : s[i] = whole[i]
      BY <2>4, <2>5, <2>6
    <3> HIDE DEF s, m
    <3>2. s = whole
      BY <3>1
    <3> QED
      BY <3>2 DEF s
  <2>8. buf' = buf \o part
    BY <1>2, <1>4 DEF part
  <2>9. (IF Len(said') < sz' THEN Len(said') ELSE sz' - 1) = sz - 1
    BY <1>3, <2>1
  <2>10. buf' = SubSeq(said', 1, sz - 1)
    BY <1>1, <2>7, <2>8 DEF whole
  <2>11. state' # "running"
    BY <1>2, <1>4
  <2> QED
    BY <2>9, <2>10, <2>11 DEF RendersAsAsked
<1>5. CASE ~(Len(text) > room)
  <2>1. SubSeq(text, 1, Len(text)) = text
    BY SubSeqFull
  <2> QED
    BY <1>1, <1>2, <1>5, <2>1 DEF RendersAsAsked
<1> QED
  BY <1>4, <1>5

-----------------------------------------------------------------------------
(* Repeating a character less than once leaves nothing, whatever it is.    *)
LEMMA SamePadding ==
  ASSUME NEW info \in Int, NEW char, NEW padding, Matches(info, char, padding),
         NEW count \in Nat \ {0}
  PROVE  /\ padding.width - count \in Int
         /\ Repeat(char, info - count) = Repeat(padding.fill, padding.width - count)
<1>1. CASE info = padding.width /\ char = padding.fill
  BY <1>1
<1>2. CASE info <= 0 /\ padding.width \in Int /\ padding.width <= 0
  <2>1. 1..(info - count) = {} /\ 1..(padding.width - count) = {}
    BY <1>2
  <2> QED
    BY <1>2, <2>1 DEF Repeat
<1> QED
  BY <1>1, <1>2 DEF Matches

(* Texts that are put together in either order are the same text.          *)
LEMMA TextsAssociate ==
  ASSUME NEW s \in Seq(Nat), NEW t \in Seq(Nat), NEW u \in Seq(Nat)
  PROVE  (s \o t) \o u = s \o (t \o u)
<1> DEFINE left  == (s \o t) \o u
           right == s \o (t \o u)
<1>1. s \o t \in Seq(Nat) /\ t \o u \in Seq(Nat)
  OBVIOUS
<1>2. left \in Seq(Nat) /\ right \in Seq(Nat)
  BY <1>1
<1>3. Len(s \o t) = Len(s) + Len(t) /\ Len(t \o u) = Len(t) + Len(u)
  OBVIOUS
<1>4. Len(left) = Len(right)
  BY <1>1, <1>3
<1>5. \A k \in 1..Len(left) : left[k] = right[k]
  BY <1>1, <1>3
<1> HIDE DEF left, right
<1>6. left = right
  BY <1>2, <1>4, <1>5, SeqEqual
<1> QED
  BY <1>6 DEF left, right

LEMMA NumberPromised ==
  ASSUME NEW num \in Int, NEW info \in Int, NEW char \in Nat,
         Matches(info, char, asked[pos])
  PROVE  /\ IntToStr(num, info, char) = Promised(num)
         /\ num >= 0 => UnsToStr(num, info, char) = Promised(num)
         /\ Promised(num) \in Seq(Nat)
<1> DEFINE a == IF num < 0 THEN -num ELSE num
           digits == Digits(a)
           count == DigitCount(a)
           fill == Repeat(asked[pos].fill, asked[pos].width - Len(digits))
           sign == IF num < 0 THEN <<Minus>> ELSE <<>>
<1>1. a \in Nat /\ (num < 0 => -num \in Nat) /\ (~(num < 0) => num \in Nat)
  OBVIOUS
<1>2. count \in Nat \ {0} /\ digits \in Seq(Nat) /\ Len(digits) = count
  <2>1. digits \in Seq(Nat) /\ count \in Nat \ {0}
    <3> HIDE DEF a
    <3>1. a \in Int
      BY <1>1
    <3>2. count \in 1..MostDigits /\ MostDigits \in Nat
      BY <3>1, DigitCountIs
    <3>3. digits \in Seq(Nat)
      BY <1>1, DigitsAre
    <3> HIDE DEF digits, count
    <3>4. count \in Nat \ {0}
      BY <3>2
    <3> QED
      BY <3>3, <3>4
  <2>2. digits = [k \in 1..count |-> DigitZero + ((a \div 10^(count - k)) % 10)]
    BY DEF Digits
  <2> HIDE DEF a, digits, count
  <2> QED
    BY <2>1, <2>2
<1>3. Repeat(char, info - count) = fill
  <2> HIDE DEF count, digits
  <2> QED
    BY <1>2, SamePadding
<1>4. UnsToStr(a, info, char) = fill \o digits
  BY <1>3 DEF UnsToStr
<1>5. fill \in Seq(Nat)
  <2>1. info - count \in Int
    BY <1>2
  <2>2. Repeat(char, info - count) \in Seq(Nat)
    BY <2>1, Repeated
  <2> QED
    BY <1>3, <2>2
<1>6. Promised(num) = (sign \o fill) \o digits
  BY DEF Promised
<1>7. sign \in Seq(Nat)
  BY DEF Minus
<1>8. (sign \o fill) \o digits = sign \o (fill \o digits)
  <2>1. digits \in Seq(Nat)
    BY <1>2
  <2> HIDE DEF sign, fill, digits
  <2> QED
    BY <1>5, <1>7, <2>1, TextsAssociate
<1>9. fill \o digits \in Seq(Nat) /\ Promised(num) \in Seq(Nat)
  <2> HIDE DEF sign, fill, digits
  <2>1. fill \o digits \in Seq(Nat)
    BY <1>2, <1>5
  <2>2. sign \o (fill \o digits) \in Seq(Nat)
    BY <1>7, <2>1, SMTT(30)
  <2> QED
    BY <1>6, <1>8, <2>1, <2>2
<1>10. CASE num < 0
  <2>1. IntToStr(num, info, char) = <<Minus>> \o UnsToStr(a, info, char)
    BY <1>10 DEF IntToStr
  <2>2. sign = <<Minus>> /\ ~(num >= 0)
    BY <1>10
  <2> QED
    BY <1>4, <1>6, <1>8, <1>9, <2>1, <2>2
<1>11. CASE ~(num < 0)
  <2>1. IntToStr(num, info, char) = UnsToStr(a, info, char) /\ a = num
    BY <1>11 DEF IntToStr
  <2>2. sign = <<>>
    BY <1>11
  <2> HIDE DEF fill, digits, sign, a
  <2>3. sign \o (fill \o digits) = fill \o digits
    BY <1>9, <2>2, ConcatEmptySeq
  <2> QED
    BY <1>4, <1>6, <1>8, <1>9, <2>1, <2>3
<1> QED
  BY <1>10, <1>11

-----------------------------------------------------------------------------
(* The last of finitely many positions.                                    *)
LEMMA LastExists ==
  ASSUME NEW positions, NEW k \in Nat, positions \in SUBSET Nat, \A j \in positions : j < k,
         positions # {}
  PROVE  LastOf(positions) # {}
<1> DEFINE S == {r \in Nat : \E j \in positions : r = k - j}
<1>1. S # {} /\ S \in SUBSET Nat
  <2>1. PICK j \in positions : TRUE
    OBVIOUS
  <2>2. j \in Nat /\ j < k
    BY <2>1
  <2>3. k - j \in S
    BY <2>1, <2>2
  <2> QED
    BY <2>3
<1>2. PICK r \in S : \A t \in S : r <= t
  <2> HIDE DEF S
  <2> QED
    BY <1>1, LeastOf
<1>3. PICK j \in positions : r = k - j
  OBVIOUS
<1>4. ASSUME NEW i \in positions PROVE i <= j
  <2>1. i \in Nat /\ i < k /\ j \in Nat /\ j < k
    OBVIOUS
  <2>2. k - i \in S
    BY <2>1
  <2>3. r <= k - i
    BY <1>2, <2>2
  <2> QED
    BY <1>3, <2>1, <2>3
<1> QED
  BY <1>4 DEF LastOf

(***************************************************************************)
(* A conversion begins at pos, ends where the format goes on, and has the  *)
(* padding that was asked for.                                             *)
(***************************************************************************)
LEMMA DirectiveAsked ==
  ASSUME FormatType, Asks(fmt, asked), At(pos) = PercentSign,
         PaddingInForce([info |-> paddingInfo, char |-> paddingChar], pos)
  PROVE  /\ pos \in DOMAIN asked /\ Directive.next = GoesOn(fmt, pos)
         /\ Matches(Directive.info, Directive.char, asked[pos])
<1> DEFINE begins == DOMAIN asked
           before == InFront(begins, pos)
           c == CharAt(fmt, pos + 1)
           d == CharAt(fmt, pos + 2)
<1>1. pos \in 1..Len(fmt) /\ fmt[pos] = PercentSign
  BY DEF At, CharAt, FormatType, PercentSign, Nul
<1>2. \A k \in begins : k \in 1..Len(fmt)
  BY DEF Asks
<1>3. pos \in begins
  <2>1. \A j \in before : GoesOn(fmt, j) <= pos
    BY DEF PaddingInForce
  <2>2. ASSUME NEW j \in begins, j < pos, pos < GoesOn(fmt, j) PROVE FALSE
    <3>1. GoesOn(fmt, j) <= pos
      BY <2>1, <2>2 DEF InFront
    <3>2. GoesOn(fmt, j) \in Int
      BY <1>2 DEF GoesOn, FlagLength
    <3>3. pos \in Int
      BY <1>1
    <3> HIDE DEF begins
    <3> QED
      BY <2>2, <3>1, <3>2, <3>3
  <2> QED
    BY <1>1, <2>2 DEF Asks
<1>4. /\ c \in Nat /\ d \in Nat /\ At(pos + 1) = c /\ At(pos + 2) = d
      /\ Digit(c) \in Int /\ Digit(d) \in Int
  <2>1. At(pos + 1) \in Nat /\ At(pos + 2) \in Nat
    BY AtIs DEF FormatType
  <2> QED
    BY <2>1 DEF At, Digit, DigitZero
<1> DEFINE Two == c \in {DigitZero, Point} /\ Digit(d) \in 0..9
           Zero == c \in {DigitZero, Point} /\ ~(Digit(d) \in 0..9)
           One == c \notin {DigitZero, Point} /\ Digit(c) \in 1..9
           Not == c \notin {DigitZero, Point} /\ ~(Digit(c) \in 1..9)
<1>5. /\ Two => Directive = Read(Digit(d), DigitZero, pos + 3)
      /\ Zero => Directive = Read(Digit(c), paddingChar, pos + 2)
      /\ One => Directive = Read(Digit(c), Space, pos + 2)
      /\ Not => Directive = Read(paddingInfo, paddingChar, pos + 1)
  <2> HIDE DEF c, d
  <2> QED
    BY <1>4 DEF Directive
<1>6. /\ FlagLength(fmt, pos) = IF Two THEN 2 ELSE IF Zero \/ One THEN 1 ELSE 0
      /\ Two \/ Zero \/ One \/ Not
  BY DEF FlagLength
<1>7. GoesOn(fmt, pos) = pos + FlagLength(fmt, pos) + 2
  BY DEF GoesOn
<1>8. asked[pos] = FlagPadding(fmt, pos) \/ Not
  BY <1>3, <1>6 DEF Asks
<1>9. FlagPadding(fmt, pos) = IF Two THEN [width |-> Digit(d), fill |-> DigitZero]
                              ELSE IF c \in {DigitZero, Point} THEN NoPadding
                              ELSE [width |-> Digit(c), fill |-> Space]
  BY <1>6 DEF FlagPadding
<1>10. \A info, char, then :
         /\ Read(info, char, then).info = info /\ Read(info, char, then).char = char
         /\ Read(info, char, then).next = then + 1
  BY DEF Read
<1>11. pos \in Nat
  BY DEF FormatType
<1> HIDE DEF begins, before, c, d
<1>12. CASE Two
  <2>1. asked[pos] = [width |-> Digit(d), fill |-> DigitZero]
    BY <1>8, <1>9, <1>12
  <2> QED
    BY <1>3, <1>5, <1>6, <1>7, <1>10, <1>11, <1>12, <2>1 DEF Matches, begins
<1>13. CASE Zero
  <2>1. asked[pos] = NoPadding
    BY <1>8, <1>9, <1>13
  <2>2. Digit(c) <= 0
    BY <1>13 DEF Digit, DigitZero, Point
  <2> QED
    BY <1>3, <1>5, <1>6, <1>7, <1>10, <1>11, <1>13, <2>1, <2>2
    DEF Matches, NoPadding, begins
<1>14. CASE One
  <2>1. asked[pos] = [width |-> Digit(c), fill |-> Space]
    BY <1>8, <1>9, <1>14
  <2> QED
    BY <1>3, <1>5, <1>6, <1>7, <1>10, <1>11, <1>14, <2>1 DEF Matches, begins
<1>15. CASE Not
  <2>1. /\ before = {} => asked[pos] = NoPadding
        /\ \A j \in LastOf(before) : asked[pos] = asked[j]
    BY <1>3, <1>6, <1>15 DEF Asks, begins, before
  <2>2. /\ before = {} => paddingInfo <= 0
        /\ \A j \in LastOf(before) : Matches(paddingInfo, paddingChar, asked[j])
    BY DEF PaddingInForce, before, begins
  <2>3. Matches(paddingInfo, paddingChar, asked[pos])
    <3>1. CASE before = {}
      BY <2>1, <2>2, <3>1 DEF Matches, NoPadding
    <3>2. CASE before # {}
      <4>1. before \in SUBSET Nat /\ \A j \in before : j < pos
        BY <1>2 DEF before, InFront
      <4>2. PICK j \in LastOf(before) : TRUE
        BY <1>11, <3>2, <4>1, LastExists
      <4> QED
        BY <2>1, <2>2, <4>2
    <3> QED
      BY <3>1, <3>2
  <2> QED
    BY <1>3, <1>5, <1>6, <1>7, <1>10, <1>11, <1>15, <2>3 DEF begins
<1> QED
  BY <1>6, <1>12, <1>13, <1>14, <1>15

(* The padding of a conversion stays in force behind it.                   *)
LEMMA PaddingStays ==
  ASSUME FormatType, Asks(fmt, asked), At(pos) = PercentSign,
         PaddingInForce([info |-> paddingInfo, char |-> paddingChar], pos),
         NEW characters, Converts(characters)
  PROVE  /\ Asks(fmt, asked)'
         /\ PaddingInForce([info |-> paddingInfo, char |-> paddingChar], pos)'
<1> DEFINE begins == DOMAIN asked
           behind == GoesOn(fmt, pos)
           info == Directive.info
           char == Directive.char
           after == InFront(begins, behind)
<1>1. /\ fmt' = fmt /\ asked' = asked /\ pos' = behind
      /\ paddingInfo' = info /\ paddingChar' = char
  BY DirectiveAsked DEF Converts, PaddingKept
<1>2. pos \in begins /\ Matches(info, char, asked[pos])
  BY DirectiveAsked
<1>3. /\ \A k \in begins : k \in Nat
      /\ \A j, k \in begins : j < k => GoesOn(fmt, j) <= k
  BY DEF Asks
<1>4. behind \in Nat /\ pos \in Nat /\ pos < behind
  BY DEF FormatType, GoesOn, FlagLength
<1> HIDE DEF info, char, behind, begins
<1>5. \A j \in after : j <= pos
  <2>1. ASSUME NEW j \in after, ~(j <= pos) PROVE FALSE
    <3>1. j \in begins /\ j \in Nat /\ j < behind
      BY <1>3 DEF InFront
    <3>2. behind <= j
      BY <1>2, <1>3, <1>4, <2>1, <3>1 DEF behind
    <3> QED
      BY <1>4, <3>1, <3>2
  <2> QED
    BY <2>1
<1>6. pos \in after /\ after # {}
  BY <1>2, <1>4 DEF InFront
<1>7. ASSUME NEW j \in LastOf(after) PROVE j = pos
  <2>1. j \in after /\ pos <= j /\ j \in Nat
    BY <1>3, <1>6 DEF LastOf, InFront
  <2> QED
    BY <1>4, <1>5, <2>1
<1>8. ASSUME NEW j \in after PROVE GoesOn(fmt, j) <= behind
  <2>1. j \in begins /\ j \in Nat /\ j <= pos
    BY <1>3, <1>5 DEF InFront
  <2>2. CASE j = pos
    BY <1>4, <2>2 DEF behind
  <2>3. CASE j # pos
    <3>1. GoesOn(fmt, j) <= pos
      BY <1>2, <1>3, <1>4, <2>1, <2>3
    <3>2. GoesOn(fmt, j) \in Int
      BY <2>1 DEF GoesOn, FlagLength
    <3> QED
      BY <1>4, <3>1, <3>2
  <2> QED
    BY <2>2, <2>3
<1>9. PaddingInForce([info |-> info, char |-> char], behind)
  BY <1>2, <1>6, <1>7, <1>8 DEF PaddingInForce, begins
<1> QED
  BY <1>1, <1>9 DEF PaddingInForce

LEMMA RenderNextInv ==
  ASSUME RenderInv, [FormatNext]_formatVars
  PROVE  RenderInv'
<1>1. FormatInv'
  BY FormatNextInv DEF RenderInv
<1> DEFINE force == [info |-> paddingInfo, char |-> paddingChar]
<1>2. FormatType /\ InBuffer /\ sz \in Nat \ {0}
  BY DEF RenderInv, FormatInv, FormatType
<1>3. state = "running" => buf = said /\ Asks(fmt, asked) /\ PaddingInForce(force, pos)
  BY DEF RenderInv, Rendering
<1>4. ASSUME NEW call \in Calls, NEW size \in Sizes, Call(call, size)
      PROVE  Rendering' /\ RendersAsAsked'
  <2>1. /\ fmt' = call.text /\ asked' = call.padding /\ pos' = 1 /\ paddingInfo' = -1
        /\ paddingChar' = Space /\ buf' = <<>> /\ said' = <<>> /\ state' = "running"
    BY <1>4 DEF Call
  <2>2. Asks(call.text, call.padding)
    BY FormatAssumption
  <2>3. InFront(DOMAIN call.padding, 1) = {}
    BY <2>2 DEF Asks, InFront
  <2>4. PaddingInForce(force, pos)'
    BY <2>1, <2>3 DEF PaddingInForce, LastOf
  <2> QED
    BY <2>1, <2>2, <2>4 DEF Rendering, RendersAsAsked
<1>5. ASSUME Ordinary
      PROVE  Rendering' /\ RendersAsAsked'
  <2>1. /\ state = "running" /\ fmt' = fmt /\ asked' = asked /\ pos' = pos + 1 /\ sz' = sz
        /\ paddingInfo' = paddingInfo /\ paddingChar' = paddingChar
        /\ At(pos) # PercentSign /\ Says(<<At(pos)>>, <<At(pos)>>)
    BY <1>5 DEF Ordinary
  <2>2. <<At(pos)>> \in Seq(Nat)
    <3>1. At(pos) \in Nat
      BY <1>2, AtIs DEF FormatType
    <3> QED
      BY <3>1
  <2>3. (state' = "running" => buf' = said') /\ RendersAsAsked'
    BY <1>2, <1>3, <2>1, <2>2, SaysAll
  <2>4. PaddingInForce(force, pos + 1)
    <3>1. pos \in Nat /\ \A k \in DOMAIN asked : k \in 1..Len(fmt) /\ fmt[k] = PercentSign
      BY <1>2, <1>3, <2>1 DEF Asks, FormatType
    <3>2. pos \notin DOMAIN asked
      BY <2>1, <3>1 DEF At, CharAt
    <3>3. InFront(DOMAIN asked, pos + 1) = InFront(DOMAIN asked, pos)
      BY <3>1, <3>2 DEF InFront
    <3>4. ASSUME NEW j \in InFront(DOMAIN asked, pos) PROVE GoesOn(fmt, j) <= pos + 1
      <4>1. GoesOn(fmt, j) <= pos
        BY <1>3, <2>1 DEF PaddingInForce
      <4>2. GoesOn(fmt, j) \in Int
        BY <3>1 DEF InFront, GoesOn, FlagLength
      <4> QED
        BY <3>1, <4>1, <4>2
    <3> QED
      BY <1>3, <2>1, <3>3, <3>4 DEF PaddingInForce
  <2>5. (Asks(fmt, asked) /\ PaddingInForce(force, pos))'
    BY <1>3, <2>1, <2>4 DEF PaddingInForce
  <2> QED
    BY <2>3, <2>5 DEF Rendering
<1>6. ASSUME NEW characters, Converts(characters)
      PROVE  /\ state = "running" /\ sz' = sz /\ buf = said
             /\ Directive.info \in Int /\ Directive.char \in Nat
             /\ Matches(Directive.info, Directive.char, asked[pos])
             /\ (Asks(fmt, asked) /\ PaddingInForce(force, pos))'
  <2>1. state = "running" /\ At(pos) = PercentSign /\ sz' = sz
    BY <1>6 DEF Converts
  <2> QED
    BY <1>2, <1>3, <1>6, <2>1, DirectiveIs, DirectiveAsked, PaddingStays
<1>7. ASSUME NEW characters, Converts(characters), NEW text \in Seq(Nat), Says(text, text)
      PROVE  Rendering' /\ RendersAsAsked'
  <2>1. (state' = "running" => buf' = said') /\ RendersAsAsked'
    BY <1>2, <1>6, <1>7, SaysAll
  <2> QED
    BY <1>6, <1>7, <2>1 DEF Rendering
<1>8. ASSUME ConvertString
      PROVE  Rendering' /\ RendersAsAsked'
  <2>1. PICK s \in Texts \cup {Null} :
          LET text == IF s = Null THEN NullText ELSE s IN Says(text, text)
    BY <1>8 DEF ConvertString
  <2> DEFINE text == IF s = Null THEN NullText ELSE s
  <2>2. text \in Seq(Nat) /\ Says(text, text)
    BY <2>1, FormatAssumption DEF NullText
  <2> HIDE DEF text
  <2> QED
    BY <1>7, <1>8, <2>2 DEF ConvertString
<1>9. ASSUME ConvertPercent
      PROVE  Rendering' /\ RendersAsAsked'
  <2>1. <<PercentSign>> \in Seq(Nat)
    BY DEF PercentSign
  <2> QED
    BY <1>7, <1>9, <2>1 DEF ConvertPercent
<1>10. ASSUME ConvertChar
       PROVE  Rendering' /\ RendersAsAsked'
  <2>1. PICK text \in Texts : text # <<>> /\ Says(<<text[1]>>, <<text[1]>>)
    BY <1>10 DEF ConvertChar
  <2>2. <<text[1]>> \in Seq(Nat)
    BY <2>1, FormatAssumption
  <2> QED
    BY <1>7, <1>10, <2>1, <2>2 DEF ConvertChar
<1>11. ASSUME NEW characters, Converts(characters), NEW num \in Int,
              Says(IntToStr(num, Directive.info, Directive.char), Promised(num))
       PROVE  Rendering' /\ RendersAsAsked'
  <2>1. /\ IntToStr(num, Directive.info, Directive.char) = Promised(num)
        /\ Promised(num) \in Seq(Nat)
    BY <1>6, <1>11, NumberPromised
  <2> QED
    BY <1>7, <1>11, <2>1
<1>12. ASSUME NEW characters, Converts(characters), NEW num \in Nat,
              Says(UnsToStr(num, Directive.info, Directive.char), Promised(num))
       PROVE  Rendering' /\ RendersAsAsked'
  <2>1. num \in Int /\ num >= 0
    OBVIOUS
  <2>2. /\ UnsToStr(num, Directive.info, Directive.char) = Promised(num)
        /\ Promised(num) \in Seq(Nat)
    BY <1>6, <1>12, <2>1, NumberPromised
  <2> QED
    BY <1>7, <1>12, <2>2
<1>13. ASSUME ConvertInt
       PROVE  Rendering' /\ RendersAsAsked'
  <2>1. ASSUME NEW num \in Numbers \cup Longs PROVE num \in Int
    BY FormatAssumption
  <2> QED
    BY <1>11, <1>13, <2>1 DEF ConvertInt
<1>14. ASSUME ConvertUnsigned
       PROVE  Rendering' /\ RendersAsAsked'
  <2>1. ASSUME NEW n \in Numbers PROVE n % 2^WordBits \in Nat
    BY UnsignedIs
  <2>2. ASSUME NEW num \in {n % 2^WordBits : n \in Numbers} \cup (Longs \cap Nat)
        PROVE  num \in Nat
    BY <2>1
  <2> QED
    BY <1>12, <1>14, <2>2 DEF ConvertUnsigned
<1>15. ASSUME ConvertHex
       PROVE  Rendering' /\ RendersAsAsked'
  <2>1. PICK text \in Seq(Nat) : Says(text, text) /\ \E characters : Converts(characters)
    BY <1>2, <1>15, HexWritten
  <2> QED
    BY <1>7, <2>1
<1>16. ASSUME IgnoreUnknown
       PROVE  Rendering' /\ RendersAsAsked'
  <2>1. /\ Converts({Directive.conv}
                    \ ({Ascii[name] : name \in DOMAIN Ascii} \cup {PercentSign}))
        /\ buf' = buf /\ said' = said /\ state' # "finished"
    BY <1>16 DEF IgnoreUnknown
  <2> QED
    BY <1>6, <2>1 DEF Rendering, RendersAsAsked
<1>17. ASSUME Finish
       PROVE  Rendering' /\ RendersAsAsked'
  <2>1. /\ state = "running" /\ state' = "finished" /\ buf' = buf /\ said' = said /\ sz' = sz
    BY <1>17 DEF Finish
  <2>2. said \in Seq(Nat) /\ Len(said) < sz /\ buf = said
    BY <1>2, <1>3, <2>1 DEF InBuffer
  <2>3. SubSeq(said, 1, Len(said)) = said
    BY <2>2, SubSeqFull
  <2> QED
    BY <2>1, <2>2, <2>3 DEF Rendering, RendersAsAsked
<1>18. ASSUME UNCHANGED formatVars
       PROVE  Rendering' /\ RendersAsAsked'
  BY <1>18 DEF RenderInv, formatVars, Rendering, RendersAsAsked, PaddingInForce
<1>19. Rendering' /\ RendersAsAsked'
  BY <1>4, <1>5, <1>8, <1>9, <1>10, <1>13, <1>14, <1>15, <1>16, <1>17, <1>18
  DEF FormatNext
<1> QED
  BY <1>1, <1>19 DEF RenderInv

(***************************************************************************)
(* vsnprintf writes what its format asks for, cut where the buffer ends    *)
(* (print.c), for every format, every size and all arguments: a decimal    *)
(* number has the width and the fill of the last flag up to it, a          *)
(* hexadecimal one all digits of its type (a byte for b, a word for w,     *)
(* where the comment at print.c:65 has them the other way round) whatever  *)
(* the flag, and a conversion starts where the one before it ended.        *)
(***************************************************************************)
THEOREM FormatRenders == FormatSpec => []RendersAsAsked
<1>1. FormatInit => RenderInv
  <2>1. FormatInit => FormatInv
    BY FormatInitInv
  <2> QED
    BY <2>1 DEF FormatInit, RenderInv, Rendering, RendersAsAsked
<1>2. RenderInv /\ [FormatNext]_formatVars => RenderInv'
  BY RenderNextInv
<1>3. RenderInv => RendersAsAsked
  BY DEF RenderInv
<1> QED
  BY <1>1, <1>2, <1>3, PTL DEF FormatSpec

-----------------------------------------------------------------------------
(***************************************************************************)
(* Strings: the copying loops copy exactly, and strcmp orders the strings. *)
(***************************************************************************)
(* What mem can be.                                                        *)
Memories == [MemoryAddresses -> 0..255]

-----------------------------------------------------------------------------
(* Copied n bytes: those of the destination come from the source.          *)
Copied(dst, src, n) ==
  [k \in MemoryAddresses |-> IF k \in dst..dst + n - 1 THEN mem[k - dst + src] ELSE mem[k]]

CopiedLast(dst, src, n, i) ==
  [k \in MemoryAddresses |->
     IF k \in dst + n - i..dst + n - 1 THEN mem[k - dst + src] ELSE mem[k]]

(* The loops as recursive functions: one function satisfies the recursion, *)
(* and the least place where another one differs is none.                  *)
LEMMA ForwardCopies ==
  ASSUME mem \in Memories, NEW dst, NEW src, NEW n \in Nat, Inside(dst, n), Inside(src, n),
         dst < src \/ Disjoint(dst, src, n)
  PROVE  Forward(dst, src, n) = Copied(dst, src, n)
<1> DEFINE Steps(h) ==
             [k \in 0..n |->
                IF k = 0 THEN mem
                ELSE [h[k - 1] EXCEPT ![dst + k - 1] = h[k - 1][src + k - 1]]]
           g == [k \in 0..n |-> Copied(dst, src, k)]
<1>1. dst \in Nat /\ src \in Nat /\ dst >= 1 /\ src >= 1
      /\ dst + n - 1 <= Size /\ src + n - 1 <= Size /\ Size \in Nat
  BY StringsAssumption DEF Inside, MemoryAddresses
<1>2. Copied(dst, src, 0) = mem
  <2>1. ASSUME NEW k \in MemoryAddresses PROVE Copied(dst, src, 0)[k] = mem[k]
    BY <1>1 DEF Copied, MemoryAddresses
  <2> QED
    BY <2>1 DEF Copied, Memories
<1>3. ASSUME NEW k \in 1..n
      PROVE  Copied(dst, src, k)
               = [Copied(dst, src, k - 1) EXCEPT
                    ![dst + k - 1] = Copied(dst, src, k - 1)[src + k - 1]]
  <2>1. src + k - 1 \in MemoryAddresses /\ dst + k - 1 \in MemoryAddresses
    BY <1>1 DEF MemoryAddresses
  <2>2. src + k - 1 \notin dst..dst + k - 1 - 1
    BY <1>1 DEF Disjoint
  <2>3. Copied(dst, src, k - 1)[src + k - 1] = mem[src + k - 1]
    BY <1>1, <2>1, <2>2 DEF Copied
  <2>4. ASSUME NEW a \in MemoryAddresses
        PROVE  Copied(dst, src, k)[a]
                 = [Copied(dst, src, k - 1) EXCEPT ![dst + k - 1] = mem[src + k - 1]][a]
    <3>1. CASE a = dst + k - 1
      <4>1. a - dst + src = src + k - 1 /\ a \in dst..dst + k - 1
        BY <1>1, <3>1
      <4> QED
        BY <3>1, <4>1 DEF Copied
    <3>2. CASE a # dst + k - 1
      <4>1. a \in dst..dst + k - 1 <=> a \in dst..dst + k - 1 - 1
        BY <1>1, <3>2 DEF MemoryAddresses
      <4> QED
        BY <3>2, <4>1 DEF Copied
    <3> QED
      BY <3>1, <3>2
  <2> QED
    BY <2>3, <2>4 DEF Copied
<1>4. g = Steps(g)
  <2>1. ASSUME NEW k \in 0..n PROVE g[k] = Steps(g)[k]
    <3>1. CASE k = 0
      BY <1>2, <3>1
    <3>2. CASE k # 0
      <4>1. k \in 1..n /\ k - 1 \in 0..n
        BY <3>2
      <4> QED
        BY <1>3, <3>2, <4>1
    <3> QED
      BY <3>1, <3>2
  <2> QED
    BY <2>1
<1>5. ASSUME NEW h, h = Steps(h)
      PROVE  h = g
  <2> DEFINE S == {k \in 0..n : h[k] # g[k]}
  <2>1. ASSUME S # {} PROVE FALSE
    <3>1. S \in SUBSET Nat
      OBVIOUS
    <3>2. PICK k \in S : \A j \in S : k <= j
      BY <2>1, <3>1, LeastOf
    <3>3. k # 0
      <4>1. Steps(h)[0] = mem /\ Steps(g)[0] = mem
        OBVIOUS
      <4> QED
        BY <1>4, <1>5, <3>2, <4>1
    <3>4. k \in 1..n /\ k - 1 \in 0..n /\ k - 1 \notin S
      BY <3>2, <3>3
    <3>5. h[k - 1] = g[k - 1]
      BY <3>4
    <3>6. Steps(h)[k] = Steps(g)[k]
      BY <3>3, <3>4, <3>5
    <3> QED
      BY <1>4, <1>5, <3>2, <3>6
  <2> QED
    BY <1>5, <2>1
<1>6. Forward(dst, src, n) = g[n]
  BY <1>4, <1>5 DEF Forward
<1> QED
  BY <1>6

LEMMA BackwardCopies ==
  ASSUME mem \in Memories, NEW dst, NEW src, NEW n \in Nat, Inside(dst, n), Inside(src, n),
         ~(dst < src)
  PROVE  Backward(dst, src, n) = Copied(dst, src, n)
<1> DEFINE Steps(h) ==
             [k \in 0..n |->
                IF k = 0 THEN mem
                ELSE [h[k - 1] EXCEPT ![dst + n - k] = h[k - 1][src + n - k]]]
           g == [k \in 0..n |-> CopiedLast(dst, src, n, k)]
<1>1. dst \in Nat /\ src \in Nat /\ dst >= 1 /\ src >= 1
      /\ dst + n - 1 <= Size /\ src + n - 1 <= Size /\ Size \in Nat
  BY StringsAssumption DEF Inside, MemoryAddresses
<1>2. CopiedLast(dst, src, n, 0) = mem
  <2>1. ASSUME NEW k \in MemoryAddresses PROVE CopiedLast(dst, src, n, 0)[k] = mem[k]
    BY <1>1 DEF CopiedLast, MemoryAddresses
  <2> QED
    BY <2>1 DEF CopiedLast, Memories
<1>3. ASSUME NEW k \in 1..n
      PROVE  CopiedLast(dst, src, n, k)
               = [CopiedLast(dst, src, n, k - 1) EXCEPT
                    ![dst + n - k] = CopiedLast(dst, src, n, k - 1)[src + n - k]]
  <2>1. src + n - k \in MemoryAddresses /\ dst + n - k \in MemoryAddresses
    BY <1>1 DEF MemoryAddresses
  <2>2. src + n - k \notin dst + n - (k - 1)..dst + n - 1
    BY <1>1
  <2>3. CopiedLast(dst, src, n, k - 1)[src + n - k] = mem[src + n - k]
    BY <1>1, <2>1, <2>2 DEF CopiedLast
  <2>4. ASSUME NEW a \in MemoryAddresses
        PROVE  CopiedLast(dst, src, n, k)[a]
                 = [CopiedLast(dst, src, n, k - 1) EXCEPT ![dst + n - k] = mem[src + n - k]][a]
    <3>1. CASE a = dst + n - k
      <4>1. a - dst + src = src + n - k /\ a \in dst + n - k..dst + n - 1
        BY <1>1, <3>1
      <4> QED
        BY <3>1, <4>1 DEF CopiedLast
    <3>2. CASE a # dst + n - k
      <4>1. a \in dst + n - k..dst + n - 1 <=> a \in dst + n - (k - 1)..dst + n - 1
        BY <1>1, <3>2 DEF MemoryAddresses
      <4> QED
        BY <3>2, <4>1 DEF CopiedLast
    <3> QED
      BY <3>1, <3>2
  <2> QED
    BY <2>3, <2>4 DEF CopiedLast
<1>4. g = Steps(g)
  <2>1. ASSUME NEW k \in 0..n PROVE g[k] = Steps(g)[k]
    <3>1. CASE k = 0
      BY <1>2, <3>1
    <3>2. CASE k # 0
      <4>1. k \in 1..n /\ k - 1 \in 0..n
        BY <3>2
      <4> QED
        BY <1>3, <3>2, <4>1
    <3> QED
      BY <3>1, <3>2
  <2> QED
    BY <2>1
<1>5. ASSUME NEW h, h = Steps(h)
      PROVE  h = g
  <2> DEFINE S == {k \in 0..n : h[k] # g[k]}
  <2>1. ASSUME S # {} PROVE FALSE
    <3>1. S \in SUBSET Nat
      OBVIOUS
    <3>2. PICK k \in S : \A j \in S : k <= j
      BY <2>1, <3>1, LeastOf
    <3>3. k # 0
      <4>1. Steps(h)[0] = mem /\ Steps(g)[0] = mem
        OBVIOUS
      <4> QED
        BY <1>4, <1>5, <3>2, <4>1
    <3>4. k \in 1..n /\ k - 1 \in 0..n /\ k - 1 \notin S
      BY <3>2, <3>3
    <3>5. h[k - 1] = g[k - 1]
      BY <3>4
    <3>6. Steps(h)[k] = Steps(g)[k]
      BY <3>3, <3>4, <3>5
    <3> QED
      BY <1>4, <1>5, <3>2, <3>6
  <2> QED
    BY <1>5, <2>1
<1>6. Backward(dst, src, n) = g[n]
  BY <1>4, <1>5 DEF Backward
<1>7. CopiedLast(dst, src, n, n) = Copied(dst, src, n)
  <2>1. dst + n - n = dst
    BY <1>1
  <2> QED
    BY <2>1 DEF CopiedLast, Copied
<1> QED
  BY <1>6, <1>7

LEMMA MovedCopies ==
  ASSUME mem \in Memories, NEW dst, NEW src, NEW n \in Nat, Inside(dst, n), Inside(src, n)
  PROVE  Moved(dst, src, n) = Copied(dst, src, n)
BY ForwardCopies, BackwardCopies DEF Moved

-----------------------------------------------------------------------------
(* strlen of a string, and that no other distance would do.                *)
LEMMA LengthIs ==
  ASSUME NEW memory, NEW p \in MemoryAddresses, NEW e \in p..Size, memory[e] = 0
  PROVE  /\ LengthTo(memory, p, 0) \in 0..Size - p
         /\ memory[p + LengthTo(memory, p, 0)] = 0
         /\ \A k \in 0..LengthTo(memory, p, 0) - 1 : memory[p + k] # 0
<1> DEFINE S == {n \in 0..Size - p : memory[p + n] = 0}
           Fits(n) == memory[p + n] = 0 /\ \A k \in 0..n - 1 : memory[p + k] # 0
<1>1. p \in Nat /\ Size \in Nat /\ e \in Nat
  BY StringsAssumption DEF MemoryAddresses
<1>2. S \in SUBSET Nat
  OBVIOUS
<1>3. e - p \in S
  <2>1. e - p \in 0..Size - p /\ p + (e - p) = e
    BY <1>1
  <2> QED
    BY <2>1
<1>4. PICK n \in S : \A j \in S : n <= j
  BY <1>2, <1>3, LeastOf
<1>5. n \in 0..Size - p /\ Fits(n)
  <2>1. ASSUME NEW k \in 0..n - 1 PROVE memory[p + k] # 0
    <3>1. k \in 0..Size - p /\ ~(n <= k)
      BY <1>1, <1>4
    <3> QED
      BY <1>4, <3>1
  <2> QED
    BY <1>4, <2>1
<1>6. LengthTo(memory, p, 0) = CHOOSE m \in 0..Size - p : Fits(m)
  BY DEF LengthTo
<1> HIDE DEF Fits
<1>7. LengthTo(memory, p, 0) \in 0..Size - p /\ Fits(LengthTo(memory, p, 0))
  BY <1>5, <1>6
<1> QED
  BY <1>7 DEF Fits

LEMMA LengthIsOnly ==
  ASSUME NEW memory, NEW p \in MemoryAddresses, NEW n \in 0..Size - p,
         memory[p + n] = 0, \A k \in 0..n - 1 : memory[p + k] # 0
  PROVE  LengthTo(memory, p, 0) = n
<1> DEFINE m == LengthTo(memory, p, 0)
<1>1. p \in Nat /\ Size \in Nat /\ p + n \in p..Size
  BY StringsAssumption DEF MemoryAddresses
<1>2. m \in 0..Size - p /\ memory[p + m] = 0 /\ \A k \in 0..m - 1 : memory[p + k] # 0
  BY <1>1, LengthIs
<1> HIDE DEF m
<1>3. ~(m < n) /\ ~(n < m)
  <2>1. m < n => m \in 0..n - 1
    BY <1>2
  <2>2. n < m => n \in 0..m - 1
    BY <1>2
  <2> QED
    BY <1>2, <2>1, <2>2
<1> QED
  BY <1>2, <1>3 DEF m

(* The characters of a text.                                               *)
LEMMA TextInIs ==
  ASSUME NEW memory \in Memories, NEW p \in MemoryAddresses,
         LengthTo(memory, p, 0) \in 0..Size - p
  PROVE  /\ TextIn(memory, p) \in Seq(0..255)
         /\ Len(TextIn(memory, p)) = LengthTo(memory, p, 0)
         /\ \A k \in 1..LengthTo(memory, p, 0) : TextIn(memory, p)[k] = memory[p + k - 1]
<1> DEFINE n == LengthTo(memory, p, 0)
           last == p + n - 1
<1> HIDE DEF n
<1>1. p \in 1..Size /\ Size \in Nat /\ n \in 0..Size - p
  BY StringsAssumption DEF MemoryAddresses, n
<1>3. /\ p \in Int /\ last \in Int /\ last - p + 1 = n /\ (p <= last <=> n # 0)
      /\ \A i \in p..last : memory[i] \in 0..255
  BY <1>1 DEF Memories, MemoryAddresses
<1>4. /\ SubSeq(memory, p, last) \in Seq(0..255) /\ Len(SubSeq(memory, p, last)) = n
      /\ \A k \in 1..n : SubSeq(memory, p, last)[k] = memory[p + k - 1]
  <2> HIDE DEF last
  <2>1. /\ SubSeq(memory, p, last) \in Seq(0..255)
        /\ Len(SubSeq(memory, p, last)) = IF p <= last THEN last - p + 1 ELSE 0
        /\ \A i \in 1..last - p + 1 : SubSeq(memory, p, last)[i] = memory[p + i - 1]
    BY <1>3, SubSeqProperties
  <2>2. n \in Nat
    BY <1>1
  <2> QED
    BY <1>3, <2>1, <2>2
<1> QED
  BY <1>4 DEF TextIn, n

(* What strlen and the text of a string are.                               *)
LEMMA StringIs ==
  ASSUME mem \in Memories, NEW p, IsString(p)
  PROVE  /\ p \in 1..Size /\ Size \in Nat /\ p \in MemoryAddresses
         /\ StrLen(p) \in 0..Size - p /\ mem[p + StrLen(p)] = 0
         /\ \A k \in 0..StrLen(p) - 1 : mem[p + k] # 0
         /\ Text(p) \in Seq(0..255) /\ Len(Text(p)) = StrLen(p)
         /\ \A k \in 1..StrLen(p) : Text(p)[k] = mem[p + k - 1]
<1>1. p \in MemoryAddresses /\ p \in 1..Size /\ Size \in Nat
  BY StringsAssumption DEF IsString, MemoryAddresses
<1>2. /\ StrLen(p) \in 0..Size - p /\ mem[p + StrLen(p)] = 0
      /\ \A k \in 0..StrLen(p) - 1 : mem[p + k] # 0
  BY <1>1, LengthIs DEF IsString, StrLen
<1> QED
  BY <1>1, <1>2, TextInIs DEF StrLen, Text

-----------------------------------------------------------------------------
(* The bytes, and the order of two of them.                                *)
ByteValues == 0..255

ByteLess(a, b) == Signed(a) < Signed(b)

(* What decides memcmp: the first difference, if there is one.             *)
LEMMA MemCmpIs ==
  ASSUME NEW p, NEW q, NEW n \in Nat
  PROVE  \/ /\ \A k \in 0..n - 1 : mem[p + k] = mem[q + k]
            /\ MemCmp(p, q, n) = 0
         \/ \E i \in 0..n - 1 :
              /\ \A k \in 0..i - 1 : mem[p + k] = mem[q + k]
              /\ mem[p + i] # mem[q + i]
              /\ MemCmp(p, q, n) = IF ByteLess(mem[p + i], mem[q + i]) THEN -1 ELSE 1
<1> DEFINE differ == {k \in 0..n - 1 : mem[p + k] # mem[q + k]}
           first == CHOOSE k \in differ : \A j \in differ : k <= j
<1>1. MemCmp(p, q, n) = IF differ = {} THEN 0
                        ELSE IF ByteLess(mem[p + first], mem[q + first]) THEN -1 ELSE 1
  BY DEF MemCmp, ByteLess
<1>2. CASE differ = {}
  BY <1>1, <1>2
<1>3. CASE differ # {}
  <2>1. differ \in SUBSET Nat
    OBVIOUS
  <2>2. \E k \in differ : \A j \in differ : k <= j
    <3> HIDE DEF differ
    <3> QED
      BY <1>3, <2>1, LeastOf
  <2>3. first \in differ /\ \A j \in differ : first <= j
    <3> HIDE DEF differ
    <3> QED
      BY <2>2
  <2> HIDE DEF first
  <2>4. ASSUME NEW k \in 0..first - 1 PROVE mem[p + k] = mem[q + k]
    <3>1. first \in 0..n - 1
      BY <2>3
    <3>2. k \in 0..n - 1 /\ ~(first <= k)
      BY <3>1
    <3> QED
      BY <2>3, <3>2
  <2> QED
    BY <1>1, <1>3, <2>3, <2>4
<1> QED
  BY <1>2, <1>3

(* The same of two areas of bytes, as a lexicographic order.               *)
Same(p, q, n) == \A k \in 0..n - 1 : mem[p + k] = mem[q + k]

Smaller(p, q, n) ==
  \E i \in 0..n - 1 : Same(p, q, i) /\ ByteLess(mem[p + i], mem[q + i])

(* The bytes of an area inside of the memory.                              *)
LEMMA ByteIs ==
  ASSUME mem \in Memories, NEW p \in MemoryAddresses, NEW n \in Nat, p + n - 1 <= Size,
         NEW k \in 0..n - 1
  PROVE  mem[p + k] \in ByteValues
<1>1. p + k \in MemoryAddresses
  BY StringsAssumption DEF MemoryAddresses
<1> QED
  BY <1>1 DEF Memories, ByteValues

LEMMA BytesOrdered ==
  ASSUME NEW a \in ByteValues, NEW b \in ByteValues
  PROVE  /\ a # b => ByteLess(a, b) \/ ByteLess(b, a)
         /\ ByteLess(a, b) => a # b /\ ~ByteLess(b, a)
         /\ \A c \in ByteValues : ByteLess(a, b) /\ ByteLess(b, c) => ByteLess(a, c)
BY DEF ByteValues, ByteLess, Signed

(* memcmp returns the order of the two areas.                              *)
LEMMA MemCmpOrders ==
  ASSUME mem \in Memories, NEW p \in MemoryAddresses, NEW q \in MemoryAddresses,
         NEW n \in Nat, p + n - 1 <= Size, q + n - 1 <= Size
  PROVE  /\ MemCmp(p, q, n) \in {-1, 0, 1}
         /\ MemCmp(p, q, n) = 0 <=> Same(p, q, n)
         /\ MemCmp(p, q, n) = -1 <=> Smaller(p, q, n)
         /\ MemCmp(p, q, n) = 1 <=> Smaller(q, p, n)
<1>1. \A k \in 0..n - 1 : mem[p + k] \in ByteValues /\ mem[q + k] \in ByteValues
  BY ByteIs
<1>2. CASE Same(p, q, n) /\ MemCmp(p, q, n) = 0
  <2>1. \A i \in 0..n - 1 : /\ ~ByteLess(mem[p + i], mem[q + i])
                            /\ ~ByteLess(mem[q + i], mem[p + i])
    BY <1>1, <1>2, BytesOrdered DEF Same
  <2> QED
    BY <1>2, <2>1 DEF Smaller
<1>3. ASSUME NEW i \in 0..n - 1, Same(p, q, i), mem[p + i] # mem[q + i],
             MemCmp(p, q, n) = IF ByteLess(mem[p + i], mem[q + i]) THEN -1 ELSE 1
      PROVE  /\ MemCmp(p, q, n) \in {-1, 0, 1}
             /\ MemCmp(p, q, n) = 0 <=> Same(p, q, n)
             /\ MemCmp(p, q, n) = -1 <=> Smaller(p, q, n)
             /\ MemCmp(p, q, n) = 1 <=> Smaller(q, p, n)
  <2>1. ~Same(p, q, n)
    BY <1>3 DEF Same
  <2>2. Same(q, p, i)
    BY <1>3 DEF Same
  <2>3. ByteLess(mem[p + i], mem[q + i]) \/ ByteLess(mem[q + i], mem[p + i])
    <3>1. mem[p + i] \in ByteValues /\ mem[q + i] \in ByteValues
      BY <1>3, ByteIs
    <3> QED
      BY <1>3, <3>1, BytesOrdered
  <2>4. ASSUME NEW j \in 0..n - 1, Same(p, q, j) \/ Same(q, p, j), mem[p + j] # mem[q + j]
        PROVE  j = i
    <3>1. i \in 0..j - 1 => mem[p + i] = mem[q + i]
      BY <2>4 DEF Same
    <3>2. j \in 0..i - 1 => mem[p + j] = mem[q + j]
      BY <1>3 DEF Same
    <3> QED
      BY <1>3, <2>4, <3>1, <3>2
  <2>5. Smaller(p, q, n) => ByteLess(mem[p + i], mem[q + i])
    <3>1. ASSUME NEW j \in 0..n - 1, Same(p, q, j), ByteLess(mem[p + j], mem[q + j])
          PROVE  ByteLess(mem[p + i], mem[q + i])
      <4>1. mem[p + j] # mem[q + j]
        BY <1>1, <3>1, BytesOrdered
      <4>2. j = i
        BY <2>4, <3>1, <4>1
      <4> QED
        BY <3>1, <4>2
    <3> QED
      BY <3>1 DEF Smaller
  <2>6. Smaller(q, p, n) => ByteLess(mem[q + i], mem[p + i])
    <3>1. ASSUME NEW j \in 0..n - 1, Same(q, p, j), ByteLess(mem[q + j], mem[p + j])
          PROVE  ByteLess(mem[q + i], mem[p + i])
      <4>1. mem[p + j] # mem[q + j]
        BY <1>1, <3>1, BytesOrdered
      <4>2. j = i
        BY <2>4, <3>1, <4>1
      <4> QED
        BY <3>1, <4>2
    <3> QED
      BY <3>1 DEF Smaller
  <2>7. CASE ByteLess(mem[p + i], mem[q + i])
    <3>1. ~ByteLess(mem[q + i], mem[p + i])
      <4>1. mem[p + i] \in ByteValues /\ mem[q + i] \in ByteValues
        BY <1>3, ByteIs
      <4> QED
        BY <2>7, <4>1, BytesOrdered
    <3>2. Smaller(p, q, n)
      BY <1>3, <2>7 DEF Smaller
    <3> QED
      BY <1>3, <2>1, <2>6, <2>7, <3>1, <3>2
  <2>8. CASE ~ByteLess(mem[p + i], mem[q + i])
    <3>1. Smaller(q, p, n)
      BY <2>2, <2>3, <2>8 DEF Smaller
    <3> QED
      BY <1>3, <2>1, <2>5, <2>8, <3>1
  <2> QED
    BY <2>7, <2>8
<1> QED
  BY <1>2, <1>3, MemCmpIs DEF Same

(* The order is transitive: the earlier of the two differences decides.    *)
LEMMA SmallerOfThree ==
  ASSUME mem \in Memories, NEW n \in Nat,
         NEW p \in MemoryAddresses, NEW q \in MemoryAddresses, NEW r \in MemoryAddresses,
         p + n - 1 <= Size, q + n - 1 <= Size, r + n - 1 <= Size,
         Same(p, q, n) \/ Smaller(p, q, n), Same(q, r, n) \/ Smaller(q, r, n)
  PROVE  Same(p, r, n) \/ Smaller(p, r, n)
<1>1. \A k \in 0..n - 1 : /\ mem[p + k] \in ByteValues /\ mem[q + k] \in ByteValues
                          /\ mem[r + k] \in ByteValues
  BY ByteIs
<1>2. CASE Same(p, q, n)
  <2>1. \A i \in 0..n : Same(q, r, i) => Same(p, r, i)
    BY <1>2 DEF Same
  <2>2. Smaller(q, r, n) => Smaller(p, r, n)
    BY <1>2, <2>1 DEF Same, Smaller
  <2> QED
    BY <2>1, <2>2
<1>3. ASSUME NEW i \in 0..n - 1, Same(p, q, i), ByteLess(mem[p + i], mem[q + i])
      PROVE  Smaller(p, r, n)
  <2>1. CASE Same(q, r, n)
    <3>1. Same(p, r, i) /\ ByteLess(mem[p + i], mem[r + i])
      BY <1>3, <2>1 DEF Same
    <3> QED
      BY <3>1 DEF Smaller
  <2>2. ASSUME NEW j \in 0..n - 1, Same(q, r, j), ByteLess(mem[q + j], mem[r + j])
        PROVE  Smaller(p, r, n)
    <3>1. CASE i < j
      <4>1. Same(p, r, i) /\ ByteLess(mem[p + i], mem[r + i])
        BY <1>3, <2>2, <3>1 DEF Same
      <4> QED
        BY <4>1 DEF Smaller
    <3>2. CASE j < i
      <4>1. Same(p, r, j) /\ ByteLess(mem[p + j], mem[r + j])
        BY <1>3, <2>2, <3>2 DEF Same
      <4> QED
        BY <4>1 DEF Smaller
    <3>3. CASE i = j
      <4>1. Same(p, r, i)
        BY <1>3, <2>2, <3>3 DEF Same
      <4>2. /\ mem[p + i] \in ByteValues /\ mem[q + i] \in ByteValues /\ mem[r + i] \in ByteValues
            /\ ByteLess(mem[q + i], mem[r + i])
        BY <1>3, <2>2, <3>3, ByteIs
      <4>3. ByteLess(mem[p + i], mem[r + i])
        BY <1>3, <4>2, BytesOrdered
      <4> QED
        BY <4>1, <4>3 DEF Smaller
    <3> QED
      BY <3>1, <3>2, <3>3
  <2> QED
    BY <2>1, <2>2 DEF Smaller
<1> QED
  BY <1>2, <1>3 DEF Smaller

(* strcmp compares the lengths first, then all bytes, terminators too.     *)
LEMMA Compares ==
  ASSUME mem \in Memories
  PROVE  CompareIsOrder
<1> DEFINE strings == {p \in MemoryAddresses : IsString(p)}
<1>1. ASSUME NEW p \in strings, NEW q \in strings
      PROVE  /\ StrLen(p) \in Nat /\ StrLen(q) \in Nat
             /\ StrLen(p) < StrLen(q) => StrCmp(p, q) = -1
             /\ StrLen(p) > StrLen(q) => StrCmp(p, q) = 1
             /\ StrLen(p) = StrLen(q) =>
                  /\ StrCmp(p, q) \in {-1, 0, 1}
                  /\ StrCmp(p, q) = 0 <=> Same(p, q, StrLen(p) + 1)
                  /\ StrCmp(p, q) = -1 <=> Smaller(p, q, StrLen(p) + 1)
                  /\ StrCmp(p, q) = 1 <=> Smaller(q, p, StrLen(p) + 1)
  <2>1. /\ p \in 1..Size /\ q \in 1..Size /\ Size \in Nat
        /\ StrLen(p) \in 0..Size - p /\ StrLen(q) \in 0..Size - q
    BY StringIs
  <2> DEFINE m == StrLen(p)
             n == StrLen(q)
  <2>2. StrCmp(p, q) = IF m < n THEN -1 ELSE IF m > n THEN 1 ELSE MemCmp(p, q, m + 1)
    BY DEF StrCmp
  <2>3. m \in 0..Size - p /\ n \in 0..Size - q
    BY <2>1
  <2> HIDE DEF m, n
  <2>4. ASSUME m = n
        PROVE  /\ MemCmp(p, q, m + 1) \in {-1, 0, 1}
               /\ MemCmp(p, q, m + 1) = 0 <=> Same(p, q, m + 1)
               /\ MemCmp(p, q, m + 1) = -1 <=> Smaller(p, q, m + 1)
               /\ MemCmp(p, q, m + 1) = 1 <=> Smaller(q, p, m + 1)
    <3>1. m + 1 \in Nat /\ p + (m + 1) - 1 <= Size /\ q + (m + 1) - 1 <= Size
      BY <2>1, <2>3, <2>4
    <3> QED
      BY <3>1, MemCmpOrders
  <2>5. /\ m \in Nat /\ n \in Nat
        /\ m < n => StrCmp(p, q) = -1
        /\ m > n => StrCmp(p, q) = 1
        /\ m = n => StrCmp(p, q) = MemCmp(p, q, m + 1)
    BY <2>1, <2>2, <2>3
  <2> QED
    BY <2>4, <2>5 DEF m, n
<1>2. ASSUME NEW p \in strings, NEW q \in strings
      PROVE  StrCmp(p, q) = -StrCmp(q, p)
  <2>1. CASE StrLen(p) = StrLen(q)
    <3>1. Same(p, q, StrLen(p) + 1) <=> Same(q, p, StrLen(p) + 1)
      BY DEF Same
    <3> QED
      BY <1>1, <2>1, <3>1
  <2>2. CASE StrLen(p) # StrLen(q)
    BY <1>1, <2>2
  <2> QED
    BY <2>1, <2>2
<1>3. ASSUME NEW p \in strings, NEW q \in strings
      PROVE  StrCmp(p, q) = 0 <=> Text(p) = Text(q)
  <2>1. /\ StrLen(p) \in Nat /\ mem[p + StrLen(p)] = 0
        /\ StrLen(q) \in Nat /\ mem[q + StrLen(q)] = 0
        /\ Text(p) \in Seq(0..255) /\ Len(Text(p)) = StrLen(p)
        /\ Text(q) \in Seq(0..255) /\ Len(Text(q)) = StrLen(q)
        /\ \A k \in 1..StrLen(p) : Text(p)[k] = mem[p + k - 1]
        /\ \A k \in 1..StrLen(q) : Text(q)[k] = mem[q + k - 1]
        /\ p \in Nat /\ q \in Nat
    BY StringIs
  <2>2. ASSUME Text(p) = Text(q) PROVE StrCmp(p, q) = 0
    <3>1. StrLen(p) = StrLen(q)
      BY <2>1, <2>2
    <3>2. ASSUME NEW k \in 0..StrLen(p) PROVE mem[p + k] = mem[q + k]
      <4>1. CASE k = StrLen(p)
        BY <2>1, <3>1, <4>1
      <4>2. CASE k # StrLen(p)
        <5>1. k + 1 \in 1..StrLen(p) /\ p + (k + 1) - 1 = p + k /\ q + (k + 1) - 1 = q + k
          BY <2>1, <4>2
        <5>2. Text(p)[k + 1] = mem[p + k] /\ Text(q)[k + 1] = mem[q + k]
          BY <2>1, <3>1, <5>1
        <5> QED
          BY <2>2, <5>2
      <4> QED
        BY <4>1, <4>2
    <3>3. Same(p, q, StrLen(p) + 1)
      BY <2>1, <3>2 DEF Same
    <3> QED
      BY <1>1, <3>1, <3>3
  <2>3. ASSUME StrCmp(p, q) = 0 PROVE Text(p) = Text(q)
    <3>1. StrLen(p) = StrLen(q)
      BY <1>1, <2>3
    <3>2. Same(p, q, StrLen(p) + 1)
      BY <1>1, <2>3, <3>1
    <3>3. ASSUME NEW k \in 1..StrLen(p) PROVE Text(p)[k] = Text(q)[k]
      <4>1. k - 1 \in 0..(StrLen(p) + 1) - 1 /\ p + (k - 1) = p + k - 1 /\ q + (k - 1) = q + k - 1
        BY <2>1
      <4>2. mem[p + k - 1] = mem[q + k - 1]
        BY <3>2, <4>1 DEF Same
      <4> QED
        BY <2>1, <3>1, <4>2
    <3> QED
      BY <2>1, <3>1, <3>3
  <2> QED
    BY <2>2, <2>3
<1>4. ASSUME NEW p \in strings, NEW q \in strings, NEW r \in strings,
             StrCmp(p, q) <= 0, StrCmp(q, r) <= 0
      PROVE  StrCmp(p, r) <= 0
  <2>1. StrLen(p) <= StrLen(q) /\ StrLen(q) <= StrLen(r) /\ StrLen(p) \in Nat
        /\ StrLen(q) \in Nat /\ StrLen(r) \in Nat
    BY <1>1, <1>4
  <2>2. CASE StrLen(p) # StrLen(r)
    BY <1>1, <2>1, <2>2
  <2>3. CASE StrLen(p) = StrLen(r)
    <3> DEFINE n == StrLen(p) + 1
    <3>1. StrLen(q) = StrLen(p)
      BY <2>1, <2>3
    <3>2. /\ n \in Nat /\ p \in MemoryAddresses /\ q \in MemoryAddresses
          /\ r \in MemoryAddresses
          /\ p + n - 1 <= Size /\ q + n - 1 <= Size /\ r + n - 1 <= Size
      BY <2>3, <3>1, StringIs, SMTT(30)
    <3>3. (Same(p, q, n) \/ Smaller(p, q, n)) /\ (Same(q, r, n) \/ Smaller(q, r, n))
      <4>1. StrCmp(p, q) \in {-1, 0} /\ StrCmp(q, r) \in {-1, 0}
        BY <1>1, <1>4, <2>3, <3>1
      <4> QED
        BY <1>1, <2>3, <3>1, <4>1
    <3> HIDE DEF n
    <3>4. Same(p, r, n) \/ Smaller(p, r, n)
      BY <3>2, <3>3, SmallerOfThree
    <3>5. StrCmp(p, r) \in {-1, 0}
      BY <1>1, <2>3, <3>4 DEF n
    <3> QED
      BY <3>5
  <2> QED
    BY <2>2, <2>3
<1> QED
  BY <1>2, <1>3, <1>4 DEF CompareIsOrder

-----------------------------------------------------------------------------
(* Copying from inside of the memory leaves bytes.                         *)
LEMMA CopiedIs ==
  ASSUME mem \in Memories, NEW dst, NEW src, NEW n \in Nat, Inside(dst, n), Inside(src, n)
  PROVE  Copied(dst, src, n) \in Memories
<1>1. /\ dst \in 1..Size /\ src \in 1..Size /\ Size \in Nat
      /\ dst + n - 1 <= Size /\ src + n - 1 <= Size
  BY StringsAssumption DEF Inside, MemoryAddresses
<1>2. ASSUME NEW k \in MemoryAddresses, k \in dst..dst + n - 1
      PROVE  k - dst + src \in MemoryAddresses
  BY <1>1, <1>2 DEF MemoryAddresses
<1> QED
  BY <1>2 DEF Copied, Memories

(* Where strcat copies to and from.                                        *)
LEMMA CatAreas ==
  ASSUME mem \in Memories, NEW dst, NEW src, CanCat(dst, src)
  PROVE  /\ CatEnd(dst) \in MemoryAddresses /\ CatEnd(dst) = dst + StrLen(dst)
         /\ StrLen(src) + 1 \in Nat
         /\ Inside(CatEnd(dst), StrLen(src) + 1) /\ Inside(src, StrLen(src) + 1)
         /\ Disjoint(CatEnd(dst), src, StrLen(src) + 1)
         /\ StrLen(dst) + StrLen(src) \in 0..Size - dst
<1>1. IsString(dst) /\ IsString(src) /\ Disjoint(CatEnd(dst), src, StrLen(src) + 1)
      /\ Inside(dst, StrLen(dst) + StrLen(src) + 1)
  BY DEF CanCat, CatEnd
<1>2. /\ dst \in 1..Size /\ src \in 1..Size /\ Size \in Nat
      /\ StrLen(dst) \in 0..Size - dst /\ StrLen(src) \in 0..Size - src
  BY <1>1, StringIs
<1>3. dst + (StrLen(dst) + StrLen(src) + 1) - 1 <= Size
  BY <1>1 DEF Inside
<1> QED
  BY <1>1, <1>2, <1>3 DEF CatEnd, Inside, MemoryAddresses

LEMMA CattedIs ==
  ASSUME mem \in Memories, NEW dst, NEW src, CanCat(dst, src)
  PROVE  /\ Catted(dst, src) = Copied(CatEnd(dst), src, StrLen(src) + 1)
         /\ Catted(dst, src) \in Memories
BY CatAreas, ForwardCopies, CopiedIs DEF Catted

(* strcat: the first text stays, the second one follows, and the first     *)
(* zero is the terminator that was copied.                                 *)
LEMMA Concatenates ==
  ASSUME mem \in Memories, NEW dst, NEW src, CanCat(dst, src)
  PROVE  TextIn(Catted(dst, src), dst) = Text(dst) \o Text(src)
<1> DEFINE m == StrLen(dst)
           n == StrLen(src)
           end == dst + m
           after == Catted(dst, src)
<1>1. IsString(dst) /\ IsString(src)
  BY DEF CanCat
<1>2. /\ dst \in 1..Size /\ src \in 1..Size /\ Size \in Nat /\ dst \in MemoryAddresses
      /\ m \in 0..Size - dst /\ n \in 0..Size - src /\ mem[src + n] = 0
      /\ \A k \in 0..m - 1 : mem[dst + k] # 0
      /\ \A k \in 0..n - 1 : mem[src + k] # 0
      /\ m + n \in 0..Size - dst
  BY <1>1, StringIs, CatAreas
<1>3. /\ Text(dst) \in Seq(0..255) /\ Len(Text(dst)) = m
      /\ Text(src) \in Seq(0..255) /\ Len(Text(src)) = n
      /\ \A k \in 1..m : Text(dst)[k] = mem[dst + k - 1]
      /\ \A k \in 1..n : Text(src)[k] = mem[src + k - 1]
  BY <1>1, StringIs
<1>4. after = Copied(end, src, n + 1) /\ after \in Memories
  BY CattedIs DEF CatEnd
<1> HIDE DEF m, n, after
<1>5. ASSUME NEW k \in 0..m + n
      PROVE  /\ k < m => after[dst + k] = mem[dst + k]
             /\ m <= k => after[dst + k] = mem[src + (k - m)]
  <2>1. dst + k \in MemoryAddresses
    BY <1>2 DEF MemoryAddresses
  <2>2. k < m => dst + k \notin end..end + (n + 1) - 1
    BY <1>2
  <2>3. m <= k => /\ dst + k \in end..end + (n + 1) - 1
                  /\ (dst + k) - end + src = src + (k - m)
    BY <1>2
  <2> QED
    BY <1>4, <2>1, <2>2, <2>3 DEF Copied
<1>6. LengthTo(after, dst, 0) = m + n
  <2>1. after[dst + (m + n)] = 0
    <3>1. m + n \in 0..m + n /\ m <= m + n /\ (m + n) - m = n
      BY <1>2
    <3> QED
      BY <1>2, <1>5, <3>1
  <2>2. ASSUME NEW k \in 0..(m + n) - 1 PROVE after[dst + k] # 0
    <3>1. k \in 0..m + n
      BY <1>2
    <3>2. CASE k < m
      <4>1. k \in 0..m - 1
        BY <1>2, <3>2
      <4> QED
        BY <1>2, <1>5, <3>1, <3>2, <4>1
    <3>3. CASE m <= k
      <4>1. k - m \in 0..n - 1
        BY <1>2, <3>3
      <4> QED
        BY <1>2, <1>5, <3>1, <3>3, <4>1
    <3> QED
      BY <1>2, <3>2, <3>3
  <2> QED
    BY <1>2, <2>1, <2>2, LengthIsOnly
<1>7. /\ TextIn(after, dst) \in Seq(0..255) /\ Len(TextIn(after, dst)) = m + n
      /\ \A k \in 1..m + n : TextIn(after, dst)[k] = after[dst + k - 1]
  <2>1. LengthTo(after, dst, 0) \in 0..Size - dst
    BY <1>2, <1>6
  <2>2. /\ TextIn(after, dst) \in Seq(0..255)
        /\ Len(TextIn(after, dst)) = LengthTo(after, dst, 0)
        /\ \A k \in 1..LengthTo(after, dst, 0) : TextIn(after, dst)[k] = after[dst + k - 1]
    BY <1>2, <1>4, <2>1, TextInIs
  <2> QED
    BY <1>6, <2>2
<1>8. /\ Text(dst) \o Text(src) \in Seq(0..255) /\ Len(Text(dst) \o Text(src)) = m + n
  BY <1>3, SMTT(30)
<1>9. ASSUME NEW k \in 1..m + n
      PROVE  TextIn(after, dst)[k] = (Text(dst) \o Text(src))[k]
  <2>1. k - 1 \in 0..m + n /\ dst + (k - 1) = dst + k - 1
    BY <1>2
  <2>2. CASE k <= m
    <3>1. (Text(dst) \o Text(src))[k] = Text(dst)[k]
      BY <1>3, <2>2
    <3>2. k \in 1..m /\ k - 1 < m
      BY <1>2, <2>2
    <3> QED
      BY <1>3, <1>5, <1>7, <2>1, <3>1, <3>2
  <2>3. CASE ~(k <= m)
    <3>1. (Text(dst) \o Text(src))[k] = Text(src)[k - m]
      BY <1>3, <2>3
    <3>2. k - m \in 1..n /\ m <= k - 1 /\ src + ((k - 1) - m) = src + (k - m) - 1
      BY <1>2, <2>3
    <3> QED
      BY <1>3, <1>5, <1>7, <2>1, <3>1, <3>2
  <2> QED
    BY <2>2, <2>3
<1>10. TextIn(after, dst) = Text(dst) \o Text(src)
  BY <1>7, <1>8, <1>9
<1> QED
  BY <1>10 DEF after

LEMMA CopiesExactly ==
  ASSUME mem \in Memories
  PROVE  CopiesAreExact
<1>1. MoveIsExact
  BY MovedCopies DEF MoveIsExact, Copied
<1>2. CatIsConcat
  BY Concatenates DEF CatIsConcat
<1> QED
  BY <1>1, <1>2 DEF CopiesAreExact

-----------------------------------------------------------------------------
(* No call leaves anything but bytes in the memory.                        *)
StringsType == mem \in Memories

LEMMA CopyWritten ==
  ASSUME StringsType, NEW dst, NEW src, NEW n \in Nat,
         MemMove(dst, src, n) \/ MemCpy(dst, src, n)
  PROVE  StringsType'
<1>1. CASE MemMove(dst, src, n)
  BY <1>1, MovedCopies, CopiedIs DEF MemMove, Write, StringsType
<1>2. CASE MemCpy(dst, src, n)
  BY <1>2, ForwardCopies, CopiedIs DEF MemCpy, Write, StringsType
<1> QED
  BY <1>1, <1>2

LEMMA StringsNextType ==
  ASSUME StringsType, [StringsNext]_stringsVars
  PROVE  StringsType'
<1> USE DEF StringsType
<1>1. ASSUME NEW dst \in MemoryAddresses, NEW src \in MemoryAddresses, NEW n \in 0..Size,
             MemMove(dst, src, n) \/ MemCpy(dst, src, n)
      PROVE  StringsType'
  BY <1>1, CopyWritten
<1>2. ASSUME NEW dst \in MemoryAddresses, NEW src \in MemoryAddresses, StrCpy(dst, src)
      PROVE  StringsType'
  <2>1. StrLen(src) + 1 \in Nat
    BY <1>2, StringIs DEF StrCpy
  <2> QED
    BY <1>2, <2>1, CopyWritten DEF StrCpy
<1>3. ASSUME NEW dst \in MemoryAddresses, NEW src \in MemoryAddresses, StrCat(dst, src)
      PROVE  StringsType'
  BY <1>3, CattedIs DEF StrCat, Write
<1>4. ASSUME NEW dst \in MemoryAddresses, NEW n \in Int, NEW val \in 0..255
      PROVE  Filled(dst, val, n) \in Memories
  BY DEF Filled, Memories
<1>5. ASSUME NEW dst \in MemoryAddresses, NEW val \in Bytes, NEW n \in 0..Size,
             MemSet(dst, val, n)
      PROVE  StringsType'
  <2>1. val \in 0..255 /\ n \in Int
    BY StringsAssumption
  <2>2. Filled(dst, val, n) \in Memories
    BY <1>4, <2>1
  <2> QED
    BY <1>5, <2>2 DEF MemSet, Write
<1>6. ASSUME NEW dst \in MemoryAddresses, NEW n \in 0..Size, ZeroMemory(dst, n)
      PROVE  StringsType'
  BY <1>4, <1>6 DEF ZeroMemory, Write
<1>7. ASSUME NEW dst \in MemoryAddresses, NEW n \in Int, NEW upper \in BOOLEAN
      PROVE  Cased(dst, n, upper) \in Memories
  <2>1. \A c \in 0..255 : Lower(c) \in 0..255 /\ Upper(c) \in 0..255
    BY DEF Lower, Upper
  <2> QED
    BY <2>1 DEF Cased, Memories
<1>8. ASSUME NEW dst \in MemoryAddresses, NEW upper \in BOOLEAN, StrCase(dst, upper)
      PROVE  StringsType'
  BY <1>7, <1>8, StringIs DEF StrCase, Write
<1>9. ASSUME NEW dst \in MemoryAddresses, NEW w \in 0..Size, NEW upper \in BOOLEAN,
             MemCase(dst, w, upper)
      PROVE  StringsType'
  BY <1>7, <1>9 DEF MemCase, Write
<1>10. CASE NewTokenState
  BY <1>10 DEF NewTokenState
<1>11. ASSUME NEW p, TokenizeNothing(p)
       PROVE  StringsType'
  BY <1>11 DEF TokenizeNothing
<1>12. ASSUME NEW p, Tokenize(p)
       PROVE  StringsType'
  <2>1. mem' = mem \/ \E a : mem' = [mem EXCEPT ![a] = 0]
    BY <1>12 DEF Tokenize
  <2> QED
    BY <2>1 DEF Memories
<1>13. CASE UNCHANGED stringsVars
  BY <1>13 DEF stringsVars
<1> QED
  BY <1>1, <1>2, <1>3, <1>5, <1>6, <1>8, <1>9, <1>10, <1>11, <1>12, <1>13 DEF StringsNext

LEMMA StringsTyped == StringsSpec => []StringsType
<1>1. StringsInit => StringsType
  BY StringsAssumption DEF StringsInit, StringsType, Memories
<1>2. StringsType /\ [StringsNext]_stringsVars => StringsType'
  BY StringsNextType
<1> QED
  BY <1>1, <1>2, PTL DEF StringsSpec

(***************************************************************************)
(* memmove moves exactly what was there, however the areas overlap, and    *)
(* strcat leaves the first text followed by the second one (string.c), for *)
(* every memory and all areas inside of it.                                *)
(***************************************************************************)
THEOREM CopiesExact == StringsSpec => []CopiesAreExact
<1>1. StringsType => CopiesAreExact
  BY CopiesExactly DEF StringsType
<1> QED
  BY <1>1, StringsTyped, PTL

(***************************************************************************)
(* strcmp orders strings: it is antisymmetric, transitive, and returns     *)
(* zero for the equal ones and for no others (string.c).                   *)
(***************************************************************************)
THEOREM ComparesAsOrder == StringsSpec => []CompareIsOrder
<1>1. StringsType => CompareIsOrder
  BY Compares DEF StringsType
<1> QED
  BY <1>1, StringsTyped, PTL

-----------------------------------------------------------------------------
(***************************************************************************)
(* Strings: Tokenize splits a string into its fields.                      *)
(***************************************************************************)
(* What a string is made of.                                               *)
Characters == 1..255

(* A field ends at one place only.                                         *)
EndsAt(text, k, e) ==
  /\ e = Len(text) + 1 \/ text[e] \in Separators
  /\ \A i \in k..e - 1 : text[i] \notin Separators

LEMMA FieldEndIs ==
  ASSUME NEW text \in Seq(Characters), NEW k \in 1..Len(text) + 1
  PROVE  FieldEnd(text, k) \in k..Len(text) + 1 /\ EndsAt(text, k, FieldEnd(text, k))
<1> DEFINE n == Len(text)
           S == {e \in k..n + 1 : e = n + 1 \/ text[e] \in Separators}
<1>1. n \in Nat /\ k \in Nat /\ n + 1 \in S
  OBVIOUS
<1>2. S \in SUBSET Nat
  BY <1>1
<1>3. PICK e \in S : \A j \in S : e <= j
  <2> HIDE DEF S
  <2> QED
    BY <1>1, <1>2, LeastOf
<1>4. e \in k..n + 1 /\ EndsAt(text, k, e)
  <2>1. ASSUME NEW i \in k..e - 1, text[i] \in Separators PROVE FALSE
    <3>1. i \in S /\ ~(e <= i)
      BY <1>1, <1>3, <2>1
    <3> QED
      BY <1>3, <3>1
  <2> QED
    BY <1>3, <2>1 DEF EndsAt
<1>5. FieldEnd(text, k) = CHOOSE m \in k..n + 1 : EndsAt(text, k, m)
  BY DEF FieldEnd, EndsAt
<1> QED
  BY <1>4, <1>5

LEMMA FieldEndOnly ==
  ASSUME NEW text \in Seq(Characters), NEW k \in 1..Len(text) + 1, NEW e \in k..Len(text) + 1,
         EndsAt(text, k, e)
  PROVE  FieldEnd(text, k) = e
<1> DEFINE m == FieldEnd(text, k)
<1>1. m \in k..Len(text) + 1 /\ EndsAt(text, k, m)
  BY FieldEndIs
<1> HIDE DEF m
<1>2. ~(m < e)
  <2>1. m < e => m \in k..e - 1 /\ m # Len(text) + 1
    BY <1>1
  <2> QED
    BY <1>1, <2>1 DEF EndsAt
<1>3. ~(e < m)
  <2>1. e < m => e \in k..m - 1 /\ e # Len(text) + 1
    BY <1>1
  <2> QED
    BY <1>1, <2>1 DEF EndsAt
<1> QED
  BY <1>1, <1>2, <1>3 DEF m

(* A string in the memory that holds a part of a text.                     *)
HoldsPart(text, at, k, e) ==
  mem[at + e - 1] = 0 /\ \A i \in k..e - 1 : mem[at + i - 1] = text[i]

LEMMA PartIsString ==
  ASSUME mem \in Memories, NEW text \in Seq(Characters), NEW at \in Nat \ {0},
         at + Len(text) <= Size,
         NEW k \in 1..Len(text) + 1, NEW e \in k..Len(text) + 1, HoldsPart(text, at, k, e)
  PROVE  /\ IsString(at + k - 1) /\ StrLen(at + k - 1) = e - k
         /\ Text(at + k - 1) = SubSeq(text, k, e - 1)
<1> DEFINE p == at + k - 1
           n == Len(text)
<1>1. n \in Nat /\ Size \in Nat /\ p \in MemoryAddresses /\ k \in Nat /\ e \in Nat
      /\ p \in Nat /\ e - k \in 0..Size - p /\ p + (e - k) = at + e - 1
  BY StringsAssumption DEF MemoryAddresses
<1>2. mem[p + (e - k)] = 0
  BY <1>1 DEF HoldsPart
<1>3. ASSUME NEW i \in 0..e - k - 1
      PROVE  mem[p + i] = text[k + i] /\ mem[p + i] # 0
  <2>1. k + i \in k..e - 1 /\ k + i \in 1..n /\ p + i = at + (k + i) - 1
    BY <1>1
  <2>2. text[k + i] \in Characters
    BY <2>1
  <2>3. 0 \notin Characters
    BY DEF Characters
  <2>4. mem[p + i] = text[k + i]
    <3> HIDE DEF p
    <3> QED
      BY <2>1 DEF HoldsPart
  <2> QED
    BY <2>2, <2>3, <2>4
<1> HIDE DEF p
<1>4. LengthTo(mem, p, 0) = e - k
  <2>1. \A i \in 0..(e - k) - 1 : mem[p + i] # 0
    BY <1>1, <1>3
  <2> QED
    BY <1>1, <1>2, <2>1, LengthIsOnly
<1>5. IsString(p)
  <2>1. at + e - 1 \in p..Size
    BY <1>1 DEF p
  <2>2. mem[at + e - 1] = 0
    BY DEF HoldsPart
  <2> QED
    BY <1>1, <2>1, <2>2 DEF IsString
<1>6. /\ Text(p) \in Seq(0..255) /\ Len(Text(p)) = e - k
      /\ \A i \in 1..e - k : Text(p)[i] = mem[p + i - 1]
  BY <1>1, <1>4, TextInIs DEF Text
<1>7. /\ SubSeq(text, k, e - 1) \in Seq(Characters) /\ Len(SubSeq(text, k, e - 1)) = e - k
      /\ \A i \in 1..e - k : SubSeq(text, k, e - 1)[i] = text[k + i - 1]
  <2> DEFINE last == e - 1
  <2>1. /\ k \in Int /\ last \in Int /\ last - k + 1 = e - k /\ (k <= last <=> e - k # 0)
        /\ \A i \in k..last : i \in 1..n
    BY <1>1
  <2>2. \A i \in k..last : text[i] \in Characters
    BY <2>1
  <2> HIDE DEF last
  <2>3. /\ SubSeq(text, k, last) \in Seq(Characters)
        /\ Len(SubSeq(text, k, last)) = IF k <= last THEN last - k + 1 ELSE 0
        /\ \A i \in 1..last - k + 1 : SubSeq(text, k, last)[i] = text[k + i - 1]
    BY <2>1, <2>2, SubSeqProperties
  <2>4. e - k \in Nat
    BY <1>1
  <2> QED
    BY <2>1, <2>3, <2>4 DEF last
<1>8. ASSUME NEW i \in 1..e - k
      PROVE  Text(p)[i] = SubSeq(text, k, e - 1)[i]
  <2>1. i - 1 \in 0..e - k - 1 /\ p + (i - 1) = p + i - 1 /\ k + (i - 1) = k + i - 1
    BY <1>1
  <2> QED
    BY <1>3, <1>6, <1>7, <2>1
<1>9. Text(p) = SubSeq(text, k, e - 1)
  <2> DEFINE s == Text(p)
             t == SubSeq(text, k, e - 1)
             m == e - k
  <2>1. s \in Seq(0..255) /\ t \in Seq(Characters) /\ Len(s) = m /\ Len(t) = m
        /\ \A i \in 1..m : s[i] = t[i]
    BY <1>6, <1>7, <1>8
  <2> HIDE DEF s, t, m
  <2>2. s = t
    BY <2>1
  <2> QED
    BY <2>2 DEF s, t
<1> QED
  BY <1>4, <1>5, <1>9 DEF p, StrLen

-----------------------------------------------------------------------------
(* The memory of a text at an address of which the fields up to the one    *)
(* that begins at position done have been split off.                       *)
SplitMemory(memory, at, text, done) ==
  /\ at \in Nat \ {0} /\ text \in Seq(Characters) /\ at + Len(text) <= Size
  /\ memory[at + Len(text)] = 0
  /\ \A k \in 1..Len(text) :
       memory[at + k - 1] = IF text[k] \in Separators /\ k < done THEN 0 ELSE text[k]

LEMMA FieldSplitOff ==
  ASSUME mem \in Memories, NEW at, NEW text, NEW done \in 1..Len(text) + 1,
         SplitMemory(mem, at, text, done),
         NEW p, Tokenize(p), (IF p = NULL THEN continuation ELSE p) = at + done - 1
  PROVE  LET e == FieldEnd(text, done)
         IN /\ e \in done..Len(text) + 1
            /\ SplitMemory(mem', at, text, e + 1)
            /\ continuation' = IF e = Len(text) + 1 THEN NULL ELSE at + e
<1> DEFINE n == Len(text)
           q == at + done - 1
           cuts == {k \in 0..StrLen(q) - 1 : mem[q + k] \in Separators}
           cut == CHOOSE k \in cuts : \A j \in cuts : k <= j
<1>1. /\ at \in Nat \ {0} /\ text \in Seq(Characters) /\ n \in Nat /\ done \in Nat \ {0}
      /\ Size \in Nat /\ at + n <= Size /\ mem[at + n] = 0
  BY StringsAssumption DEF SplitMemory
<1>2. \A k \in 1..n : mem[at + k - 1] = IF text[k] \in Separators /\ k < done THEN 0
                                        ELSE text[k]
  BY DEF SplitMemory
<1>3. StrLen(q) = n + 1 - done
  <2>1. mem[at + (n + 1) - 1] = 0 /\ n + 1 \in done..Len(text) + 1
    BY <1>1
  <2>2. ASSUME NEW i \in done..(n + 1) - 1 PROVE mem[at + i - 1] = text[i]
    <3>1. i \in 1..n /\ ~(i < done)
      BY <1>1
    <3> QED
      BY <1>2, <3>1
  <2>3. done \in 1..Len(text) + 1 /\ n + 1 \in done..Len(text) + 1
    BY <1>1
  <2> DEFINE end == n + 1
  <2>4. HoldsPart(text, at, done, end)
    BY <2>1, <2>2 DEF HoldsPart
  <2>5. end \in done..Len(text) + 1
    BY <2>3
  <2> HIDE DEF end
  <2>6. StrLen(at + done - 1) = end - done
    BY <1>1, <2>3, <2>4, <2>5, PartIsString
  <2> QED
    BY <2>6 DEF end
<1>4. cuts = {k \in 0..n - done : text[done + k] \in Separators}
  <2>1. StrLen(q) - 1 = n - done
    BY <1>1, <1>3
  <2>2. ASSUME NEW k \in 0..n - done
        PROVE  mem[q + k] = text[done + k]
    <3>1. done + k \in 1..n /\ ~(done + k < done) /\ q + k = at + (done + k) - 1
      BY <1>1
    <3> QED
      BY <1>2, <3>1
  <2> QED
    BY <2>1, <2>2
<1>5. IF cuts = {} THEN continuation' = NULL /\ mem' = mem
      ELSE continuation' = Behind(q, cut) /\ mem' = [mem EXCEPT ![q + cut] = 0]
  BY DEF Tokenize
<1>6. CASE cuts = {}
  <2>1. EndsAt(text, done, n + 1)
    <3>1. ASSUME NEW i \in done..(n + 1) - 1, text[i] \in Separators PROVE FALSE
      <4>1. i - done \in 0..n - done /\ done + (i - done) = i
        BY <1>1
      <4> QED
        BY <1>4, <1>6, <3>1, <4>1
    <3> QED
      BY <3>1 DEF EndsAt
  <2>2. FieldEnd(text, done) = n + 1
    <3>1. n + 1 \in done..Len(text) + 1
      BY <1>1
    <3> QED
      BY <1>1, <2>1, <3>1, FieldEndOnly
  <2>3. mem' = mem /\ continuation' = NULL
    BY <1>5, <1>6
  <2>4. ASSUME NEW k \in 1..n
        PROVE  mem[at + k - 1] = IF text[k] \in Separators /\ k < n + 2 THEN 0 ELSE text[k]
    <3>1. CASE k < done
      BY <1>1, <1>2, <3>1
    <3>2. CASE ~(k < done)
      <4>1. k \in done..(n + 1) - 1
        BY <1>1, <3>2
      <4>2. text[k] \notin Separators
        BY <2>1, <4>1 DEF EndsAt
      <4> QED
        BY <1>2, <4>2
    <3> QED
      BY <3>1, <3>2
  <2>5. SplitMemory(mem', at, text, (n + 1) + 1)
    <3>1. (n + 1) + 1 = n + 2
      BY <1>1
    <3> QED
      BY <1>1, <2>3, <2>4, <3>1 DEF SplitMemory
  <2>6. n + 1 \in done..n + 1
    BY <1>1
  <2> QED
    BY <2>2, <2>3, <2>5, <2>6
<1>7. CASE cuts # {}
  <2>1. cut \in cuts /\ \A j \in cuts : cut <= j
    <3>1. cuts \in SUBSET Nat
      BY <1>1, <1>4
    <3>2. \E k \in cuts : \A j \in cuts : k <= j
      <4> HIDE DEF cuts
      <4> QED
        BY <1>7, <3>1, LeastOf
    <3> HIDE DEF cuts
    <3> QED
      BY <3>2
  <2> HIDE DEF cut
  <2> DEFINE e == done + cut
  <2>2. cut \in 0..n - done /\ text[e] \in Separators
    BY <1>4, <2>1
  <2>3. e \in done..n /\ e \in 1..n /\ e # n + 1 /\ q + cut = at + e - 1
        /\ Behind(q, cut) = at + e /\ e \in done..n + 1 /\ e \in Nat
    BY <1>1, <2>2 DEF Behind
  <2>4. EndsAt(text, done, e)
    <3>1. ASSUME NEW i \in done..e - 1, text[i] \in Separators PROVE FALSE
      <4>1. i - done \in 0..n - done /\ done + (i - done) = i /\ ~(cut <= i - done)
        BY <1>1, <2>2
      <4>2. i - done \in cuts
        BY <1>4, <3>1, <4>1
      <4> QED
        BY <2>1, <4>1, <4>2
    <3> QED
      BY <2>2, <3>1 DEF EndsAt
  <2>5. FieldEnd(text, done) = e
    BY <1>1, <2>3, <2>4, FieldEndOnly
  <2>6. continuation' = at + e /\ mem' = [mem EXCEPT ![at + e - 1] = 0]
    BY <1>5, <1>7, <2>3
  <2> HIDE DEF e
  <2>7. at + e - 1 \in MemoryAddresses /\ DOMAIN mem = MemoryAddresses
    BY <1>1, <2>3 DEF MemoryAddresses, Memories
  <2>8. mem'[at + n] = 0
    <3>1. at + n # at + e - 1
      BY <1>1, <2>3
    <3>2. mem'[at + n] = mem[at + n]
      <4>1. at + n \in MemoryAddresses
        BY <1>1 DEF MemoryAddresses
      <4> QED
        BY <2>6, <2>7, <3>1, <4>1
    <3> QED
      BY <1>1, <3>2
  <2>9. ASSUME NEW k \in 1..n
        PROVE  mem'[at + k - 1] = IF text[k] \in Separators /\ k < e + 1 THEN 0 ELSE text[k]
    <3>1. CASE k = e
      BY <2>2, <2>3, <2>6, <2>7, <3>1 DEF e
    <3>2. CASE k # e
      <4>1. at + k - 1 \in MemoryAddresses /\ at + k - 1 # at + e - 1
        BY <1>1, <2>3, <3>2 DEF MemoryAddresses
      <4>2. mem'[at + k - 1] = mem[at + k - 1]
        BY <2>6, <2>7, <4>1
      <4>3. (k < done <=> k < e + 1) \/ text[k] \notin Separators
        <5>1. CASE k \in done..e - 1
          BY <2>4, <5>1 DEF EndsAt
        <5>2. CASE k \notin done..e - 1
          BY <1>1, <2>3, <3>2, <5>2
        <5> QED
          BY <5>1, <5>2
      <4> QED
        BY <1>2, <4>2, <4>3
    <3> QED
      BY <3>1, <3>2
  <2>10. SplitMemory(mem', at, text, e + 1)
    BY <1>1, <2>8, <2>9 DEF SplitMemory
  <2> QED
    BY <2>3, <2>5, <2>6, <2>10
<1> QED
  BY <1>6, <1>7

(* The text of a string is made of characters.                             *)
LEMMA TextOfString ==
  ASSUME mem \in Memories, NEW p, IsString(p)
  PROVE  SplitMemory(mem, p, Text(p), 1)
<1>1. /\ p \in 1..Size /\ Size \in Nat /\ StrLen(p) \in 0..Size - p
      /\ mem[p + StrLen(p)] = 0 /\ \A k \in 0..StrLen(p) - 1 : mem[p + k] # 0
      /\ Text(p) \in Seq(0..255) /\ Len(Text(p)) = StrLen(p)
      /\ \A k \in 1..StrLen(p) : Text(p)[k] = mem[p + k - 1]
  BY StringIs
<1> DEFINE n == StrLen(p)
           text == Text(p)
           AllBytes == 0..255
<1>2. \A k \in 1..n : text[k] # 0
  <2>1. ASSUME NEW k \in 1..n PROVE text[k] # 0
    <3>1. k - 1 \in 0..n - 1 /\ p + (k - 1) = p + k - 1
      BY <1>1
    <3>2. mem[p + (k - 1)] # 0
      BY <1>1, <3>1
    <3> QED
      BY <1>1, <3>1, <3>2
  <2> QED
    BY <2>1
<1>3. text \in Seq(AllBytes) /\ Len(text) = n /\ n \in Nat
      /\ \A c \in AllBytes : c # 0 => c \in Characters
  BY <1>1 DEF Characters
<1> HIDE DEF n, text, AllBytes
<1>4. text \in Seq(Characters)
  <2>1. \A k \in 1..n : text[k] \in Characters
    BY <1>2, <1>3
  <2> QED
    BY <1>3, <2>1
<1>5. ASSUME NEW k \in 1..n
      PROVE  mem[p + k - 1] = IF text[k] \in Separators /\ k < 1 THEN 0 ELSE text[k]
  BY <1>1, <1>3 DEF n, text
<1>6. mem[p + Len(text)] = 0 /\ p + Len(text) <= Size /\ p \in Nat \ {0}
  BY <1>1, <1>3 DEF n
<1>7. SplitMemory(mem, p, text, 1)
  BY <1>3, <1>4, <1>5, <1>6 DEF SplitMemory
<1> QED
  BY <1>7 DEF text

(***************************************************************************)
(* What is known of the string that is being split: Done is where in it    *)
(* the next field begins, behind its end when there is none.  The memory   *)
(* in front of it has zeros for the separators, and behind it is as it     *)
(* was; the tokens are fields of it, each behind the one before.           *)
(***************************************************************************)
StartOf(toks, j) == toks[j] - toks[1] + 1

DoneOf(cont, text, at) == IF cont = NULL THEN Len(text) + 2 ELSE cont - at + 1

Follow(toks, text, done) ==
  /\ toks \in Seq(Nat) /\ toks # <<>>
  /\ \A j \in 1..Len(toks) :
       StartOf(toks, j) \in 1..Len(text) + 1 /\ FieldEnd(text, StartOf(toks, j)) + 1 <= done
  /\ \A j \in 1..Len(toks) - 1 : StartOf(toks, j + 1) = FieldEnd(text, StartOf(toks, j)) + 1
  /\ FieldEnd(text, StartOf(toks, Len(toks))) + 1 = done

IsSplit(memory, cont, text, toks) ==
  LET done == DoneOf(cont, text, toks[1])
  IN /\ cont \in Nat
     /\ cont # NULL => done \in 2..Len(text) + 1
     /\ SplitMemory(memory, toks[1], text, done)
     /\ Follow(toks, text, done)

SplitSoFar ==
  source # None => initted /\ IsSplit(mem, continuation, source, tokens)

StringsInv == StringsType /\ SplitSoFar

LEMMA FieldsReturned ==
  ASSUME StringsInv
  PROVE  TokensAreFields
<1> SUFFICES ASSUME source # None PROVE TokensAreFields
  BY DEF TokensAreFields
<1> DEFINE at == tokens[1]
           n == Len(source)
           Done == DoneOf(continuation, source, at)
           End(j) == FieldEnd(source, StartOf(tokens, j))
<1>1. /\ at \in Nat \ {0} /\ source \in Seq(Characters) /\ n \in Nat /\ at + n <= Size
      /\ mem[at + n] = 0
      /\ \A k \in 1..n : mem[at + k - 1] = IF source[k] \in Separators /\ k < Done THEN 0
                                           ELSE source[k]
      /\ mem \in Memories
  BY DEF StringsInv, StringsType, SplitSoFar, SplitMemory, IsSplit
<1>2. /\ tokens \in Seq(Nat) /\ tokens # <<>>
      /\ \A j \in 1..Len(tokens) : StartOf(tokens, j) \in 1..n + 1 /\ End(j) + 1 <= Done
      /\ \A j \in 1..Len(tokens) - 1 : StartOf(tokens, j + 1) = End(j) + 1
      /\ End(Len(tokens)) + 1 = Done
      /\ continuation \in Nat /\ (continuation # NULL => Done \in 2..n + 1)
  BY DEF StringsInv, SplitSoFar, IsSplit, Follow
<1>3. Done = IF continuation = NULL THEN n + 2 ELSE continuation - at + 1
  BY DEF DoneOf
<1> HIDE DEF Done
<1>4. at \in Nat \ {0} /\ n \in Nat /\ Done \in Int /\ continuation \in Nat
  BY <1>1, <1>2, <1>3
<1>5. ASSUME NEW j \in 1..Len(tokens)
      PROVE  Text(tokens[j]) = SubSeq(source, StartOf(tokens, j), End(j) - 1)
  <2> DEFINE k == StartOf(tokens, j)
             e == End(j)
  <2>1. k \in 1..n + 1 /\ e \in k..n + 1 /\ EndsAt(source, k, e) /\ e + 1 <= Done
    BY <1>1, <1>2, FieldEndIs
  <2>2. at + k - 1 = tokens[j]
    <3>1. tokens[j] \in Nat /\ at \in Nat
      BY <1>1, <1>2, SMTT(30)
    <3> QED
      BY <3>1 DEF StartOf
  <2> HIDE DEF k, e
  <2>3. e \in 1..n + 1 /\ e + 1 <= Done
    <3> HIDE DEF n
    <3> QED
      BY <1>4, <2>1
  <2>4. mem[at + e - 1] = 0
    <3>1. CASE e = n + 1
      <4>1. at + e - 1 = at + n
        BY <1>1, <3>1
      <4> QED
        BY <1>1, <4>1
    <3>2. CASE e # n + 1
      <4>1. e \in 1..n /\ e < Done
        <5> HIDE DEF n
        <5> QED
          BY <1>4, <2>3, <3>2
      <4>2. source[e] \in Separators
        BY <2>1, <3>2 DEF EndsAt
      <4> QED
        BY <1>1, <4>1, <4>2
    <3> QED
      BY <3>1, <3>2
  <2>5. ASSUME NEW i \in k..e - 1 PROVE mem[at + i - 1] = source[i]
    <3>1. i \in 1..n
      BY <1>1, <2>1
    <3>2. source[i] \notin Separators
      BY <2>1 DEF EndsAt
    <3> QED
      BY <1>1, <3>1, <3>2
  <2>6. HoldsPart(source, at, k, e)
    BY <2>4, <2>5 DEF HoldsPart
  <2>7. Text(at + k - 1) = SubSeq(source, k, e - 1)
    BY <1>1, <2>1, <2>6, PartIsString
  <2> QED
    BY <2>2, <2>7 DEF k, e
<1>6. ASSUME continuation # NULL
      PROVE  /\ continuation = at + Done - 1
             /\ Text(continuation) = SubSeq(source, Done, n)
  <2> DEFINE d == Done
             end == n + 1
  <2>1. d \in 1..n + 1 /\ end \in d..n + 1
    BY <1>1, <1>2, <1>6
  <2>2. d = continuation - at + 1
    BY <1>3, <1>6
  <2>3. continuation = at + d - 1
    BY <1>4, <2>2
  <2>4. HoldsPart(source, at, d, end)
    <3>1. mem[at + end - 1] = 0
      BY <1>1
    <3>2. ASSUME NEW i \in d..end - 1 PROVE mem[at + i - 1] = source[i]
      <4>1. i \in 1..n /\ ~(i < d)
        BY <1>1, <2>1
      <4> QED
        BY <1>1, <4>1
    <3> QED
      BY <3>1, <3>2 DEF HoldsPart
  <2>5. end - 1 = n
    BY <1>1
  <2> HIDE DEF d, end
  <2>6. Text(at + d - 1) = SubSeq(source, d, end - 1)
    BY <1>1, <2>1, <2>4, PartIsString
  <2> QED
    BY <2>3, <2>5, <2>6 DEF d
<1> QED
  BY <1>2, <1>3, <1>5, <1>6 DEF TokensAreFields, StartOf

LEMMA TokenizeInv ==
  ASSUME StringsInv, NEW p, Tokenize(p), StringsType'
  PROVE  SplitSoFar'
<1> SUFFICES ASSUME source' # None PROVE SplitSoFar'
  BY DEF SplitSoFar
<1>1. initted' /\ mem \in Memories
  BY DEF Tokenize, StringsInv, StringsType
<1>2. CASE p # NULL
  <2> DEFINE text == Text(p)
             e == FieldEnd(text, 1)
  <2>1. IsString(p) /\ source' = text /\ tokens' = <<p>>
    BY <1>2 DEF Tokenize
  <2>2. p \in Nat \ {0} /\ SplitMemory(mem, p, text, 1) /\ text \in Seq(Characters)
    BY <1>1, <2>1, TextOfString DEF SplitMemory
  <2>3. 1 \in 1..Len(text) + 1 /\ p + 1 - 1 = p /\ p - p + 1 = 1 /\ Len(text) \in Nat
    BY <2>2
  <2>4. /\ e \in 1..Len(text) + 1 /\ SplitMemory(mem', p, text, e + 1)
        /\ continuation' = IF e = Len(text) + 1 THEN NULL ELSE p + e
    <3> HIDE DEF text
    <3>1. (IF p = NULL THEN continuation ELSE p) = p + 1 - 1
      BY <1>2, <2>3
    <3> QED
      BY <1>1, <2>2, <2>3, <3>1, FieldSplitOff
  <2> HIDE DEF e, text
  <2>5. DoneOf(continuation', text, p) = e + 1 /\ continuation' \in Nat
        /\ (continuation' # NULL => e + 1 \in 2..Len(text) + 1)
    BY <2>2, <2>3, <2>4 DEF DoneOf, NULL
  <2>6. StartOf(<<p>>, 1) = 1 /\ <<p>>[1] = p
    BY <2>3 DEF StartOf
  <2>7. Follow(<<p>>, text, e + 1)
    BY <2>2, <2>3, <2>4, <2>6 DEF Follow, e
  <2>8. IsSplit(mem', continuation', text, <<p>>)
    BY <2>4, <2>5, <2>6, <2>7 DEF IsSplit
  <2> QED
    BY <1>1, <2>1, <2>8 DEF SplitSoFar
<1>3. CASE p = NULL
  <2> DEFINE at == tokens[1]
             n == Len(source)
             done == DoneOf(continuation, source, at)
             e == FieldEnd(source, done)
             toks == Append(tokens, continuation)
  <2>1. /\ initted /\ continuation # NULL /\ source' = source
        /\ tokens' = toks
    BY <1>3 DEF Tokenize
  <2>2. /\ continuation \in Nat /\ done \in 2..n + 1 /\ SplitMemory(mem, at, source, done)
        /\ Follow(tokens, source, done) /\ done = continuation - at + 1
        /\ at \in Nat \ {0} /\ source \in Seq(Characters) /\ n \in Nat
    BY <2>1 DEF StringsInv, SplitSoFar, IsSplit, SplitMemory, DoneOf
  <2> HIDE DEF done
  <2>3. done \in 1..n + 1 /\ continuation = at + done - 1 /\ at - at + 1 = 1 /\ done \in Nat
    <3> HIDE DEF at, n
    <3> QED
      BY <2>2
  <2>4. /\ e \in done..n + 1 /\ SplitMemory(mem', at, source, e + 1)
        /\ continuation' = IF e = n + 1 THEN NULL ELSE at + e
    <3> HIDE DEF at
    <3> QED
      BY <1>1, <1>3, <2>2, <2>3, FieldSplitOff
  <2>5. DoneOf(continuation', source, at) = e + 1 /\ continuation' \in Nat
        /\ (continuation' # NULL => e + 1 \in 2..n + 1) /\ e \in Nat /\ done <= e
    <3> HIDE DEF at, e
    <3> QED
      BY <2>2, <2>3, <2>4 DEF DoneOf, NULL
  <2>6. /\ toks \in Seq(Nat) /\ toks # <<>> /\ Len(toks) = Len(tokens) + 1
        /\ Len(tokens) \in Nat \ {0} /\ toks[Len(tokens) + 1] = continuation
        /\ \A j \in 1..Len(tokens) : toks[j] = tokens[j]
    <3>1. tokens \in Seq(Nat) /\ tokens # <<>> /\ continuation \in Nat
      BY <2>2 DEF Follow
    <3>2. Len(tokens) \in Nat \ {0}
      BY <3>1
    <3> QED
      BY <3>1, <3>2
  <2>7. toks[1] = at
    BY <2>6
  <2>8. \A j \in 1..Len(tokens) : StartOf(toks, j) = StartOf(tokens, j)
    BY <2>6, <2>7 DEF StartOf
  <2>9. StartOf(toks, Len(tokens) + 1) = done
    BY <2>2, <2>6, <2>7 DEF StartOf
  <2> HIDE DEF toks, at, n
  <2>10. ASSUME NEW j \in 1..Len(toks)
         PROVE  StartOf(toks, j) \in 1..n + 1 /\ FieldEnd(source, StartOf(toks, j)) + 1 <= e + 1
    <3>1. CASE j = Len(tokens) + 1
      BY <2>3, <2>5, <2>9, <3>1
    <3>2. CASE j # Len(tokens) + 1
      <4>1. j \in 1..Len(tokens)
        BY <2>6, <3>2
      <4>2. StartOf(tokens, j) \in 1..n + 1 /\ FieldEnd(source, StartOf(tokens, j)) + 1 <= done
        BY <2>2, <4>1 DEF Follow, n
      <4>3. FieldEnd(source, StartOf(tokens, j)) \in Nat
        BY <2>2, <4>2, FieldEndIs DEF n
      <4> HIDE DEF e
      <4>4. FieldEnd(source, StartOf(tokens, j)) + 1 <= e + 1
        BY <2>3, <2>5, <4>2, <4>3
      <4> QED
        BY <2>8, <4>1, <4>2, <4>4
    <3> QED
      BY <3>1, <3>2
  <2>11. ASSUME NEW j \in 1..Len(toks) - 1
         PROVE  StartOf(toks, j + 1) = FieldEnd(source, StartOf(toks, j)) + 1
    <3>1. j \in 1..Len(tokens)
      BY <2>6
    <3>2. CASE j = Len(tokens)
      BY <2>2, <2>8, <2>9, <3>1, <3>2 DEF Follow
    <3>3. CASE j # Len(tokens)
      <4>1. j \in 1..Len(tokens) - 1 /\ j + 1 \in 1..Len(tokens)
        BY <2>6, <3>1, <3>3
      <4>2. StartOf(tokens, j + 1) = FieldEnd(source, StartOf(tokens, j)) + 1
        BY <2>2, <4>1 DEF Follow
      <4> QED
        BY <2>8, <3>1, <4>1, <4>2
    <3> QED
      BY <3>2, <3>3
  <2>12. Follow(toks, source, e + 1)
    <3>1. FieldEnd(source, StartOf(toks, Len(toks))) + 1 = e + 1
      BY <2>6, <2>9
    <3> QED
      BY <2>6, <2>10, <2>11, <3>1 DEF Follow, n
  <2>13. IsSplit(mem', continuation', source, toks)
    BY <2>4, <2>5, <2>7, <2>12 DEF IsSplit, n
  <2> QED
    BY <1>1, <2>1, <2>13 DEF SplitSoFar
<1> QED
  BY <1>2, <1>3

LEMMA StringsNextInv ==
  ASSUME StringsInv, [StringsNext]_stringsVars
  PROVE  StringsInv'
<1>1. StringsType'
  BY StringsNextType DEF StringsInv
<1>2. ASSUME source' = None
      PROVE  SplitSoFar'
  BY <1>2 DEF SplitSoFar
<1>3. ASSUME NEW dst, NEW src, NEW n, MemMove(dst, src, n) \/ MemCpy(dst, src, n)
      PROVE  SplitSoFar'
  BY <1>2, <1>3 DEF MemMove, MemCpy, Write
<1>4. ASSUME NEW dst, NEW src, StrCpy(dst, src) \/ StrCat(dst, src)
      PROVE  SplitSoFar'
  BY <1>2, <1>3, <1>4 DEF StrCpy, StrCat, Write
<1>5. ASSUME NEW dst, NEW n, NEW v, MemSet(dst, v, n) \/ ZeroMemory(dst, n)
      PROVE  SplitSoFar'
  BY <1>2, <1>5 DEF MemSet, ZeroMemory, Write
<1>6. ASSUME NEW dst, NEW n, NEW upper, StrCase(dst, upper) \/ MemCase(dst, n, upper)
      PROVE  SplitSoFar'
  BY <1>2, <1>6 DEF StrCase, MemCase, Write
<1>7. ASSUME NewTokenState
      PROVE  SplitSoFar'
  BY <1>2, <1>7 DEF NewTokenState
<1>8. ASSUME NEW p, TokenizeNothing(p)
      PROVE  SplitSoFar'
  <2>1. CASE initted
    <3>1. UNCHANGED <<mem, source, tokens, continuation>> /\ initted'
      BY <1>8, <2>1 DEF TokenizeNothing
    <3> QED
      BY <2>1, <3>1 DEF SplitSoFar, StringsInv
  <2>2. CASE ~initted
    <3>1. source' = None
      BY <1>8, <2>2 DEF TokenizeNothing, StringsInv, SplitSoFar
    <3> QED
      BY <1>2, <3>1
  <2> QED
    BY <2>1, <2>2
<1>9. ASSUME NEW p, Tokenize(p)
      PROVE  SplitSoFar'
  BY <1>1, <1>9, TokenizeInv
<1>10. ASSUME UNCHANGED stringsVars
       PROVE  SplitSoFar'
  BY <1>10 DEF stringsVars, SplitSoFar, StringsInv
<1>11. SplitSoFar'
  BY <1>3, <1>4, <1>5, <1>6, <1>7, <1>8, <1>9, <1>10 DEF StringsNext
<1> QED
  BY <1>1, <1>11 DEF StringsInv

(***************************************************************************)
(* Tokenize splits a string into its fields, empty ones included           *)
(* (string.c), for every memory and whatever the program does between the  *)
(* calls without storing in it: each token can still be read, begins       *)
(* behind the separator that ended the one before, and the rest is left    *)
(* as it was.                                                              *)
(***************************************************************************)
THEOREM TokenizeSplits == StringsSpec => []TokensAreFields
<1>1. StringsInit => StringsInv
  BY StringsAssumption DEF StringsInit, StringsInv, StringsType, Memories, SplitSoFar
<1>2. StringsInv /\ [StringsNext]_stringsVars => StringsInv'
  BY StringsNextInv
<1>3. StringsInv => TokensAreFields
  BY FieldsReturned
<1> QED
  BY <1>1, <1>2, <1>3, PTL DEF StringsSpec

-----------------------------------------------------------------------------
(***************************************************************************)
(* Format and Strings: the numbers that one writes, the other reads.       *)
(***************************************************************************)
(* The powers of ten up to the largest of a number that fits into an int.  *)
TenTo(n) == 10^n

LEMMA TensAre ==
  /\ TenTo(0) = 1 /\ TenTo(1) = 10 /\ TenTo(2) = 100 /\ TenTo(3) = 1000
  /\ TenTo(4) = 10000 /\ TenTo(5) = 100000 /\ TenTo(6) = 1000000
  /\ TenTo(7) = 10000000 /\ TenTo(8) = 100000000 /\ TenTo(9) = 1000000000
  /\ TenTo(10) = 10000000000
BY DEF TenTo

LEMMA TenTimes ==
  ASSUME NEW n \in 0..9
  PROVE  TenTo(n) \in Nat \ {0} /\ TenTo(n + 1) \in Nat \ {0} /\ TenTo(n + 1) = 10 * TenTo(n)
<1>1. n \in {0, 1, 2, 3, 4, 5, 6, 7, 8, 9}
  OBVIOUS
<1>2. /\ 0 + 1 = 1 /\ 1 + 1 = 2 /\ 2 + 1 = 3 /\ 3 + 1 = 4 /\ 4 + 1 = 5 /\ 5 + 1 = 6
      /\ 6 + 1 = 7 /\ 7 + 1 = 8 /\ 8 + 1 = 9 /\ 9 + 1 = 10
  OBVIOUS
<1> QED
  BY <1>1, <1>2, TensAre

(* The largest magnitude of an int.                                        *)
Magnitude == 2^(WordBits - 1)

LEMMA WordIs ==
  \/ WordBits = 16 /\ Magnitude = 32768 /\ 2^WordBits = 65536 /\ MostDigits = 10
  \/ WordBits = 32 /\ Magnitude = 2147483648 /\ 2^WordBits = 4294967296 /\ MostDigits = 20
<1>1. CASE WordBits = 16
  <2>1. WordBits - 1 = 15 /\ 2^15 = 32768 /\ 2^16 = 65536
    BY <1>1
  <2>2. 6 * WordBits = 96 /\ 96 \div 10 = 9
    BY <1>1
  <2> QED
    BY <1>1, <2>1, <2>2 DEF Magnitude, MostDigits
<1>2. CASE WordBits = 32
  <2>1. WordBits - 1 = 31 /\ 2^31 = 2147483648 /\ 2^32 = 4294967296
    BY <1>2
  <2>2. 6 * WordBits = 192 /\ 192 \div 10 = 19
    BY <1>2
  <2> QED
    BY <1>2, <2>1, <2>2 DEF Magnitude, MostDigits
<1> QED
  BY <1>1, <1>2, FormatAssumption

LEMMA WrappedIs ==
  /\ \A n \in Int : -Magnitude <= n /\ n < Magnitude => Wrapped(n, WordBits) = n
  /\ Wrapped(Magnitude, WordBits) = -Magnitude
<1>1. \A n : Wrapped(n, WordBits) = ((n + Magnitude) % 2^WordBits) - Magnitude
  BY DEF Wrapped, Magnitude
<1> DEFINE M == Magnitude
           W == 2^WordBits
<1>2. (M = 32768 /\ W = 65536) \/ (M = 2147483648 /\ W = 4294967296)
  BY WordIs
<1>3. \A n : Wrapped(n, WordBits) = ((n + M) % W) - M
  BY <1>1
<1> HIDE DEF M, W
<1>4. CASE M = 32768 /\ W = 65536
  <2>1. \A n : Wrapped(n, WordBits) = ((n + 32768) % 65536) - 32768
    BY <1>3, <1>4
  <2>2. \A n \in Int :
          -32768 <= n /\ n <= 32767 => ((n + 32768) % 65536) - 32768 = n
    OBVIOUS
  <2>3. ((32768 + 32768) % 65536) - 32768 = -32768
    OBVIOUS
  <2>4. \A n \in Int : n < 32768 => n <= 32767
    OBVIOUS
  <2>5. \A n \in Int : -M <= n /\ n < M => Wrapped(n, WordBits) = n
    BY <1>4, <2>1, <2>2, <2>4
  <2>6. Wrapped(M, WordBits) = -M
    BY <1>4, <2>1, <2>3
  <2> QED
    BY <2>5, <2>6 DEF M
<1>5. CASE M = 2147483648 /\ W = 4294967296
  <2>1. \A n : Wrapped(n, WordBits) = ((n + 2147483648) % 4294967296) - 2147483648
    BY <1>3, <1>5
  <2>2. \A n \in Int :
          -2147483648 <= n /\ n <= 2147483647
            => ((n + 2147483648) % 4294967296) - 2147483648 = n
    OBVIOUS
  <2>3. ((2147483648 + 2147483648) % 4294967296) - 2147483648 = -2147483648
    OBVIOUS
  <2>4. \A n \in Int : n < 2147483648 => n <= 2147483647
    OBVIOUS
  <2>5. \A n \in Int : -M <= n /\ n < M => Wrapped(n, WordBits) = n
    BY <1>5, <2>1, <2>2, <2>4
  <2>6. Wrapped(M, WordBits) = -M
    BY <1>5, <2>1, <2>3
  <2> QED
    BY <2>5, <2>6 DEF M
<1> QED
  BY <1>2, <1>4, <1>5

(* What is left of a number after j divisions by ten, and the next digit.  *)
LEMMA NextDigit ==
  ASSUME NEW a \in Nat, NEW j \in 0..9
  PROVE  /\ a \div TenTo(j) \in Nat /\ a \div TenTo(j + 1) \in Nat
         /\ a \div TenTo(j) <= a
         /\ 10 * (a \div TenTo(j + 1)) + ((a \div TenTo(j)) % 10) = a \div TenTo(j)
<1> DEFINE p == TenTo(j)
           t == TenTo(j + 1)
           q == a \div p
           r == a % p
           u == q \div 10
           v == q % 10
           s == v * p + r
<1>1. p \in Nat \ {0} /\ t \in Nat \ {0} /\ t = 10 * p
  BY TenTimes
<1> HIDE DEF p, t
<1>2. q \in Int /\ r \in 0..p - 1 /\ a = q * p + r
  BY <1>1, Division
<1> HIDE DEF q, r
<1>3. q \in Nat /\ q <= a
  <2>1. q * p \in Int /\ (q < 0 => q * p <= -p) /\ (0 <= q => q <= q * p)
    BY <1>1, <1>2
  <2> QED
    BY <1>1, <1>2, <2>1
<1>4. u \in Nat /\ v \in 0..9 /\ q = 10 * u + v
  BY <1>3
<1> HIDE DEF u, v
<1>5. v * p \in Int /\ 0 <= v * p /\ v * p <= 9 * p
  <2>1. v \in {0, 1, 2, 3, 4, 5, 6, 7, 8, 9}
    BY <1>4
  <2> QED
    BY <1>1, <2>1
<1>6. s \in Int /\ 0 <= s /\ s < t
  BY <1>1, <1>2, <1>5
<1>7. a = u * t + s
  <2>1. u * t = u * (10 * p)
    BY <1>1
  <2>2. u * (10 * p) = (10 * u) * p /\ (10 * u) * p \in Int
    BY <1>1, <1>4
  <2>3. q * p = (10 * u) * p + v * p
    BY <1>1, <1>4
  <2> QED
    BY <1>2, <1>5, <2>1, <2>2, <2>3
<1> HIDE DEF s
<1>8. a \div t = u
  BY <1>1, <1>4, <1>6, <1>7, Quotient
<1>9. 10 * u + v = q
  BY <1>4
<1> QED
  BY <1>3, <1>4, <1>8, <1>9 DEF p, t, q, v

-----------------------------------------------------------------------------
(* A number of an int has so many digits that nothing is left of it.       *)
LEMMA IntDigits ==
  ASSUME NEW a \in 0..Magnitude
  PROVE  DigitCount(a) \in 1..10 /\ a < TenTo(DigitCount(a))
<1> DEFINE c == DigitCount(a)
<1>1. a \in Nat /\ a < 10000000000
  BY WordIs
<1>2. c \in 1..MostDigits /\ (c = MostDigits \/ a < TenTo(c))
      /\ \A m \in 1..c - 1 : TenTo(m) <= a
  BY DigitCountIs DEF TenTo
<1> HIDE DEF c
<1>3. MostDigits \in {10, 20}
  BY WordIs
<1>4. c <= 10
  <2>1. ASSUME 10 < c PROVE FALSE
    <3>1. 10 \in 1..c - 1
      BY <1>2, <1>3, <2>1
    <3> QED
      BY <1>1, <1>2, <3>1, TensAre
  <2> QED
    BY <1>2, <1>3, <2>1
<1>5. a < TenTo(c)
  BY <1>1, <1>2, <1>3, <1>4, TensAre
<1> QED
  BY <1>2, <1>3, <1>4, <1>5 DEF c

LEMMA SmallQuotient ==
  ASSUME NEW a \in Nat, NEW t \in Nat \ {0}, a < t
  PROVE  a \div t = 0
OBVIOUS

(* How many characters of a text its sign takes.                           *)
SignOf(text) == IF text # <<>> /\ text[1] = 45 THEN 1 ELSE 0

(* The text has that many zeros behind its sign, and then c digits of a.   *)
ShowsNumber(text, a, zeros, c) ==
  /\ Len(text) = SignOf(text) + zeros + c
  /\ \A k \in 1..zeros : text[SignOf(text) + k] = DigitZero
  /\ \A k \in 1..c :
       text[SignOf(text) + zeros + k] = DigitZero + ((a \div TenTo(c - k)) % 10)

(***************************************************************************)
(* atoi of a number that is written behind a sign, if there is one, and    *)
(* behind zeros: what its loop has read so far is what is left of the      *)
(* number after dividing the rest of the digits away.                      *)
(***************************************************************************)
LEMMA AtoiReads ==
  ASSUME NEW a \in 0..Magnitude, NEW c \in 1..10, a < TenTo(c), NEW zeros \in Nat,
         NEW text \in Seq(Nat), ShowsNumber(text, a, zeros, c)
  PROVE  Atoi(text, WordBits)
           = Wrapped((IF SignOf(text) = 1 THEN -1 ELSE 1) * Wrapped(a, WordBits), WordBits)
<1> DEFINE start == SignOf(text)
           last == Len(text)
           Steps(h) ==
             [k \in start..last |->
                IF k = start THEN 0
                ELSE Wrapped(h[k - 1] * 10 + text[k] - 48, WordBits)]
           Left(k) == a \div TenTo(last - k)
           g == [k \in start..last |->
                   IF k <= start + zeros THEN 0 ELSE Wrapped(Left(k), WordBits)]
<1>1. /\ start \in Nat /\ last \in Nat /\ start < last /\ a \in Nat
      /\ Magnitude \in Nat /\ 32768 <= Magnitude /\ last = start + zeros + c
  BY WordIs DEF SignOf, ShowsNumber
<1>2. Wrapped(0, WordBits) = 0
  BY <1>1, WrappedIs
<1>3. ASSUME NEW k \in start + 1..start + zeros
      PROVE  g[k] = Steps(g)[k]
  <2>1. k - start \in 1..zeros /\ start + (k - start) = k
    BY <1>1, SMTT(30)
  <2>2. text[k] = 48
    BY <2>1 DEF DigitZero, ShowsNumber
  <2>3. /\ k \in start..last /\ k - 1 \in start..last /\ k # start
        /\ k <= start + zeros /\ k - 1 <= start + zeros
    BY <1>1, SMTT(30)
  <2>4. g[k] = 0 /\ g[k - 1] = 0 /\ 0 * 10 + 48 - 48 = 0
    BY <2>3
  <2> QED
    BY <1>2, <2>2, <2>3, <2>4
<1>4. ASSUME NEW k \in start + zeros + 1..last
      PROVE  g[k] = Steps(g)[k]
  <2> DEFINE i == k - (start + zeros)
             j == c - i
  <2>1. i \in 1..c /\ j \in 0..9 /\ start + zeros + i = k /\ last - k = j
        /\ last - (k - 1) = j + 1 /\ c - i = j
    <3> DEFINE b == start
               e == last
    <3>1. b \in Nat /\ e = b + zeros + c /\ k \in b + zeros + 1..e
          /\ i = k - (b + zeros) /\ j = c - i /\ c \in 1..10 /\ zeros \in Nat
      BY <1>1
    <3> HIDE DEF b, e, i, j
    <3>2. k \in Int /\ i \in 1..c
      BY <3>1
    <3>3. j \in 0..9 /\ c - i = j
      BY <3>1, <3>2
    <3>4. b + zeros + i = k /\ e - k = j /\ e - (k - 1) = j + 1
      BY <3>1, <3>2
    <3> QED
      BY <3>2, <3>3, <3>4 DEF b, e
  <2> HIDE DEF i, j
  <2>2. text[k] = 48 + ((a \div TenTo(j)) % 10)
    BY <2>1 DEF DigitZero, ShowsNumber
  <2>3. /\ a \div TenTo(j) \in Nat /\ a \div TenTo(j + 1) \in Nat
        /\ a \div TenTo(j) <= a
        /\ 10 * (a \div TenTo(j + 1)) + ((a \div TenTo(j)) % 10) = a \div TenTo(j)
    <3>1. a \in Nat /\ j \in 0..9
      BY <1>1, <2>1
    <3> QED
      BY <3>1, NextDigit
  <2>4. g[k - 1] = a \div TenTo(j + 1)
    <3>1. k - 1 \in start..last
      BY <1>1
    <3>2. CASE i = 1
      <4>1. k - 1 <= start + zeros /\ j + 1 = c
        BY <1>1, <2>1, <3>2
      <4>2. a \div TenTo(c) = 0
        <5>1. TenTo(c) \in Nat \ {0}
          BY <2>1, <4>1, TenTimes
        <5> QED
          BY <1>1, <5>1, SmallQuotient
      <4> QED
        BY <3>1, <4>1, <4>2
    <3>3. CASE i # 1
      <4>1. ~(k - 1 <= start + zeros)
        BY <1>1, <2>1, <3>3, SMTT(30)
      <4>2. g[k - 1] = Wrapped(a \div TenTo(j + 1), WordBits)
        BY <2>1, <3>1, <4>1
      <4> DEFINE u == a \div TenTo(j + 1)
                 q == a \div TenTo(j)
      <4>3. u \in Nat /\ q \in Nat /\ q <= a /\ 10 * u <= q
        <5>1. (a \div TenTo(j)) % 10 \in Nat
          BY <2>3
        <5> QED
          BY <2>3, <5>1
      <4> HIDE DEF u, q
      <4>4. u \in Int /\ -Magnitude <= u /\ u < Magnitude
        BY <1>1, <4>3
      <4>5. Wrapped(u, WordBits) = u
        BY <4>4, WrappedIs
      <4> QED
        BY <4>2, <4>5 DEF u
    <3> QED
      BY <3>2, <3>3
  <2>5. g[k - 1] * 10 + text[k] - 48 = a \div TenTo(j)
    <3> DEFINE u == a \div TenTo(j + 1)
               q == a \div TenTo(j)
               d == (a \div TenTo(j)) % 10
    <3>1. u \in Nat /\ q \in Nat /\ d \in Int /\ 10 * u + d = q
      BY <2>3
    <3>2. g[k - 1] = u /\ text[k] = 48 + d
      BY <2>2, <2>4
    <3> HIDE DEF u, q, d, g
    <3>3. g[k - 1] * 10 + text[k] - 48 = q
      BY <3>1, <3>2
    <3> QED
      BY <3>3 DEF q
  <2>6. k \in start..last /\ k # start /\ ~(k <= start + zeros)
    BY <1>1
  <2>7. g[k] = Wrapped(a \div TenTo(j), WordBits)
    BY <2>1, <2>6
  <2>8. Steps(g)[k] = Wrapped(g[k - 1] * 10 + text[k] - 48, WordBits)
    BY <2>6
  <2> QED
    BY <2>5, <2>7, <2>8
<1>5. g = Steps(g)
  <2>1. ASSUME NEW k \in start..last PROVE g[k] = Steps(g)[k]
    <3>1. k = start \/ k \in start + 1..start + zeros \/ k \in start + zeros + 1..last
      BY <1>1
    <3>2. k = start => g[k] = Steps(g)[k]
      BY <1>1
    <3> QED
      BY <1>3, <1>4, <3>1, <3>2
  <2> QED
    BY <2>1
<1>6. ASSUME NEW h, h = Steps(h)
      PROVE  h = g
  <2> DEFINE S == {k \in start..last : h[k] # g[k]}
  <2>1. ASSUME S # {} PROVE FALSE
    <3>1. S \in SUBSET Nat
      BY <1>1
    <3>2. PICK k \in S : \A j \in S : k <= j
      BY <2>1, <3>1, LeastOf
    <3>3. k # start
      <4>1. start \in start..last
        BY <1>1
      <4>2. Steps(h)[start] = 0 /\ Steps(g)[start] = 0
        BY <4>1
      <4> QED
        BY <1>5, <1>6, <3>2, <4>2
    <3>4. k \in start..last /\ k - 1 \in start..last /\ k - 1 \notin S
      <4>1. k \in start..last /\ k \in Int /\ k - 1 < k /\ start \in Int /\ last \in Int
        BY <1>1, <3>2
      <4>2. k - 1 \in start..last /\ ~(k <= k - 1)
        BY <3>3, <4>1
      <4> QED
        BY <3>2, <4>1, <4>2
    <3>5. h[k - 1] = g[k - 1]
      BY <3>4
    <3>6. Steps(h)[k] = Steps(g)[k]
      BY <3>3, <3>4, <3>5
    <3> QED
      BY <1>5, <1>6, <3>2, <3>6
  <2> QED
    BY <1>6, <2>1
<1>7. (text # <<>> /\ text[1] = 45) <=> start = 1
  BY DEF SignOf
<1>8. Atoi(text, WordBits) = Wrapped((IF start = 1 THEN -1 ELSE 1) * g[last], WordBits)
  <2> HIDE DEF g
  <2>1. Atoi(text, WordBits)
          = Wrapped((IF text # <<>> /\ text[1] = 45 THEN -1 ELSE 1) * g[last], WordBits)
    BY <1>5, <1>6 DEF Atoi, SignOf
  <2> QED
    BY <1>7, <2>1
<1>9. g[last] = Wrapped(a, WordBits)
  <2>1. last \in start..last /\ ~(last <= start + zeros) /\ last - last = 0
    BY <1>1
  <2>2. a \div 1 = a
    BY <1>1
  <2> QED
    BY <2>1, <2>2, TensAre
<1> QED
  BY <1>8, <1>9

-----------------------------------------------------------------------------
(* The text of a number without its sign: zeros, then the digits.          *)
LEMMA ZerosThenDigits ==
  ASSUME NEW a \in 0..Magnitude, NEW width \in Int
  PROVE  \E zeros \in Nat :
           LET body == UnsToStr(a, width, DigitZero)
               c    == DigitCount(a)
           IN /\ body \in Seq(Nat) /\ Len(body) = zeros + c
              /\ \A k \in 1..zeros : body[k] = DigitZero
              /\ \A k \in 1..c :
                   body[zeros + k] = DigitZero + ((a \div TenTo(c - k)) % 10)
<1> DEFINE body == UnsToStr(a, width, DigitZero)
           c == DigitCount(a)
           zeros == IF width - c > 0 THEN width - c ELSE 0
           fill == Repeat(DigitZero, width - c)
           digits == Digits(a)
<1>1. c \in 1..10 /\ a \in Nat /\ DigitZero \in Nat
  <2>1. Magnitude \in Nat
    BY WordIs
  <2> QED
    BY <2>1, IntDigits DEF DigitZero
<1>2. body = fill \o digits
  BY DEF UnsToStr
<1>3. digits = [k \in 1..c |-> DigitZero + ((a \div TenTo(c - k)) % 10)]
  BY DEF Digits, TenTo
<1>4. digits \in Seq(Nat) /\ fill \in Seq(Nat)
  <2>1. width - c \in Int
    BY <1>1
  <2>2. fill \in Seq(Nat)
    BY <1>1, <2>1, Repeated
  <2>3. digits \in Seq(Nat)
    BY <1>1, DigitsAre
  <2> QED
    BY <2>2, <2>3
<1>5. fill = [k \in 1..zeros |-> DigitZero] /\ zeros \in Nat
  <2>1. 1..(width - c) = 1..zeros
    BY <1>1
  <2> QED
    BY <1>1, <2>1 DEF Repeat
<1> HIDE DEF body, c, fill, digits, zeros
<1>6. Len(fill) = zeros /\ Len(digits) = c
  BY <1>1, <1>3, <1>4, <1>5
<1>7. body \in Seq(Nat) /\ Len(body) = zeros + c
  <2>1. fill \o digits \in Seq(Nat) /\ Len(fill \o digits) = Len(fill) + Len(digits)
    BY <1>4
  <2> QED
    BY <1>2, <1>6, <2>1
<1>8. ASSUME NEW k \in 1..zeros
      PROVE  body[k] = DigitZero
  <2>1. body[k] = fill[k]
    BY <1>1, <1>2, <1>4, <1>5, <1>6
  <2> QED
    BY <1>5, <2>1
<1>9. ASSUME NEW k \in 1..c
      PROVE  body[zeros + k] = DigitZero + ((a \div TenTo(c - k)) % 10)
  <2>1. body[zeros + k] = digits[k]
    <3>1. zeros + k \in Len(fill) + 1..Len(fill) + Len(digits)
          /\ (zeros + k) - Len(fill) = k
      BY <1>1, <1>5, <1>6
    <3> QED
      BY <1>2, <1>4, <3>1
  <2> QED
    BY <1>3, <2>1
<1> QED
  BY <1>5, <1>7, <1>8, <1>9 DEF body, c

LEMMA DigitIsNoSign ==
  ASSUME NEW a \in Nat, NEW t \in Nat \ {0}
  PROVE  DigitZero + ((a \div t) % 10) # 45
<1>1. a \div t \in Int
  BY Division
<1> DEFINE q == a \div t
<1> HIDE DEF q
<1>2. q \in Int => 48 + (q % 10) # 45
  OBVIOUS
<1> QED
  BY <1>1, <1>2 DEF q, DigitZero

(* What atoi makes of a sign and of what uns_to_str writes behind it.      *)
LEMMA SignedReads ==
  ASSUME NEW a \in 0..Magnitude, NEW width \in Int, NEW text \in Seq(Nat),
         NEW sign \in {0, 1},
         text = IF sign = 1 THEN <<Minus>> \o UnsToStr(a, width, DigitZero)
                ELSE UnsToStr(a, width, DigitZero)
  PROVE  Atoi(text, WordBits)
           = Wrapped((IF sign = 1 THEN -1 ELSE 1) * Wrapped(a, WordBits), WordBits)
<1> DEFINE body == UnsToStr(a, width, DigitZero)
           c == DigitCount(a)
           n == sign
<1>1. PICK zeros \in Nat :
        /\ body \in Seq(Nat) /\ Len(body) = zeros + c
        /\ \A k \in 1..zeros : body[k] = DigitZero
        /\ \A k \in 1..c : body[zeros + k] = DigitZero + ((a \div TenTo(c - k)) % 10)
  BY ZerosThenDigits
<1>2. c \in 1..10 /\ a < TenTo(c) /\ a \in Nat
  <2>1. Magnitude \in Nat
    BY WordIs
  <2> QED
    BY <2>1, IntDigits
<1>3. text = IF sign = 1 THEN <<45>> \o body ELSE body
  BY DEF Minus
<1>4. body[1] # 45
  <2>1. CASE zeros = 0
    <3>1. 1 \in 1..c /\ zeros + 1 = 1 /\ c - 1 \in 0..9
      BY <1>2, <2>1
    <3>2. body[1] = DigitZero + ((a \div TenTo(c - 1)) % 10)
      BY <1>1, <3>1
    <3>3. TenTo(c - 1) \in Nat \ {0}
      BY <3>1, TenTimes
    <3> QED
      BY <1>2, <3>2, <3>3, DigitIsNoSign
  <2>2. CASE zeros # 0
    BY <1>1, <2>2 DEF DigitZero
  <2> QED
    BY <2>1, <2>2
<1> HIDE DEF body, c
<1>5. SignOf(text) = n /\ Len(text) = n + zeros + c
      /\ \A k \in 1..zeros + c : text[n + k] = body[k]
  <2>1. CASE sign = 1
    <3>1. text = <<45>> \o body
      BY <1>3, <2>1
    <3>2. /\ <<45>> \in Seq(Nat) /\ Len(<<45>>) = 1 /\ <<45>>[1] = 45
          /\ Len(body) \in Nat
      BY <1>1
    <3>3. Len(text) = 1 + Len(body) /\ text[1] = 45 /\ text # <<>>
      BY <1>1, <3>1, <3>2
    <3>4. \A k \in 1..Len(body) : text[1 + k] = body[k]
      BY <1>1, <3>1, <3>2, SMTT(30)
    <3> QED
      BY <1>1, <1>2, <2>1, <3>3, <3>4, SMTT(30) DEF SignOf
  <2>2. CASE sign = 0
    <3>1. text = body /\ Len(text) = zeros + c
      BY <1>1, <1>3, <2>2
    <3>2. SignOf(text) = 0
      BY <1>4, <3>1 DEF SignOf
    <3>3. \A k \in 1..zeros + c : 0 + k = k
      BY <1>1, <1>2
    <3>4. 0 + zeros + c = zeros + c
      BY <1>1, <1>2
    <3> QED
      BY <2>2, <3>1, <3>2, <3>3, <3>4
  <2> QED
    BY <2>1, <2>2
<1>6. \A k \in 1..zeros : text[n + k] = DigitZero
  <2>1. 1..zeros \subseteq 1..zeros + c
    BY <1>1, <1>2
  <2> QED
    BY <1>1, <1>5, <2>1
<1>7. ASSUME NEW k \in 1..c
      PROVE  text[n + zeros + k] = DigitZero + ((a \div TenTo(c - k)) % 10)
  <2>1. zeros + k \in 1..zeros + c /\ n + zeros + k = n + (zeros + k)
    BY <1>1, <1>2
  <2> QED
    BY <1>1, <1>5, <2>1
<1> HIDE DEF n
<1>8. ShowsNumber(text, a, zeros, c)
  BY <1>5, <1>6, <1>7 DEF ShowsNumber
<1>9. Atoi(text, WordBits)
        = Wrapped((IF SignOf(text) = 1 THEN -1 ELSE 1) * Wrapped(a, WordBits), WordBits)
  BY <1>1, <1>2, <1>8, AtoiReads
<1>10. (IF SignOf(text) = 1 THEN -1 ELSE 1) = (IF sign = 1 THEN -1 ELSE 1)
  BY <1>5 DEF n
<1> QED
  BY <1>9, <1>10

LEMMA ReadsBack ==
  ASSUME NEW num \in -Magnitude..Magnitude - 1, NEW width \in Int
  PROVE  Atoi(IntToStr(num, width, DigitZero), WordBits) = num
<1> DEFINE text == IntToStr(num, width, DigitZero)
<1>1. Magnitude \in Nat \ {0} /\ num \in Int /\ DigitZero \in Nat
  BY WordIs DEF DigitZero
<1>2. text \in Seq(Nat)
  BY <1>1, IntToStrIs
<1>3. CASE num < 0
  <2> DEFINE a == -num
             sign == 1
  <2>1. a \in 0..Magnitude /\ a \in Nat /\ (-1) * a = num
    BY <1>1, <1>3
  <2>2. text = IF sign = 1 THEN <<Minus>> \o UnsToStr(a, width, DigitZero)
               ELSE UnsToStr(a, width, DigitZero)
    BY <1>3 DEF IntToStr
  <2>6. sign \in {0, 1} /\ sign = 1
    OBVIOUS
  <2> HIDE DEF a, text, sign
  <2>3. Atoi(text, WordBits) = Wrapped((-1) * Wrapped(a, WordBits), WordBits)
    <3> DEFINE factor == IF sign = 1 THEN -1 ELSE 1
    <3>1. Atoi(text, WordBits) = Wrapped(factor * Wrapped(a, WordBits), WordBits)
      BY <1>2, <2>1, <2>2, <2>6, SignedReads
    <3>2. factor = -1
      BY <2>6
    <3> HIDE DEF factor
    <3> QED
      BY <3>1, <3>2
  <2>4. CASE a = Magnitude
    <3>1. Wrapped(a, WordBits) = -Magnitude /\ (-1) * (-Magnitude) = Magnitude
      BY <1>1, <2>4, WrappedIs
    <3>2. Wrapped(Magnitude, WordBits) = -Magnitude /\ num = -Magnitude
      BY <1>1, <2>1, <2>4, WrappedIs
    <3> QED
      BY <2>3, <3>1, <3>2 DEF text
  <2>5. CASE a # Magnitude
    <3>1. /\ a \in Int /\ -Magnitude <= a /\ a < Magnitude
          /\ num \in Int /\ -Magnitude <= num /\ num < Magnitude
      BY <1>1, <2>1, <2>5
    <3>2. Wrapped(a, WordBits) = a /\ Wrapped(num, WordBits) = num
      BY <3>1, WrappedIs
    <3> QED
      BY <2>1, <2>3, <3>2 DEF text
  <2> QED
    BY <2>4, <2>5
<1>4. CASE ~(num < 0)
  <2> DEFINE sign == 0
  <2>1. num \in 0..Magnitude /\ -Magnitude <= num /\ num < Magnitude /\ 1 * num = num
    BY <1>1, <1>4
  <2>2. text = IF sign = 1 THEN <<Minus>> \o UnsToStr(num, width, DigitZero)
               ELSE UnsToStr(num, width, DigitZero)
    BY <1>4 DEF IntToStr
  <2>6. sign \in {0, 1} /\ sign = 0
    OBVIOUS
  <2> HIDE DEF text, sign
  <2>3. Atoi(text, WordBits) = Wrapped(1 * Wrapped(num, WordBits), WordBits)
    <3> DEFINE factor == IF sign = 1 THEN -1 ELSE 1
    <3>1. Atoi(text, WordBits) = Wrapped(factor * Wrapped(num, WordBits), WordBits)
      BY <1>2, <2>1, <2>2, <2>6, SignedReads
    <3>2. factor = 1
      BY <2>6
    <3> HIDE DEF factor
    <3> QED
      BY <3>1, <3>2
  <2>4. Wrapped(num, WordBits) = num
    BY <1>1, <2>1, WrappedIs
  <2> QED
    BY <2>1, <2>3, <2>4 DEF text
<1> QED
  BY <1>3, <1>4

(***************************************************************************)
(* Every int that is printed by %d, or by %09d, is read back by atoi, the  *)
(* smallest one included: int_to_str, uns_to_str and atoi are inverses     *)
(* whatever the width, and the states of the runs do not matter.           *)
(***************************************************************************)
THEOREM NumbersReadBack == Spec => []RoundTrip
<1>1. RoundTrip
  <2>1. \A num \in -Magnitude..Magnitude - 1, width \in {-1, 9} :
          Atoi(IntToStr(num, width, DigitZero), WordBits) = num
    <3>1. -1 \in Int /\ 9 \in Int
      OBVIOUS
    <3> QED
      BY <3>1, ReadsBack
  <2> QED
    BY <2>1 DEF RoundTrip, Magnitude
<1> QED
  BY <1>1, PTL

(***************************************************************************)
(* MCSequential runs one part at a time: each of its behaviours is one of  *)
(* every part, most of them standing still, and what is proved of a part   *)
(* holds of it.                                                            *)
(***************************************************************************)
THEOREM PartsRun == Spec => FormatSpec /\ StringsSpec /\ SearchSpec /\ TlbSpec /\ PmmSpec
<1>1. Init => FormatInit /\ StringsInit /\ SearchInit /\ TlbInit /\ PmmInit
  BY DEF Init
<1>2. ASSUME [Next]_vars
      PROVE  /\ [FormatNext]_formatVars /\ [StringsNext]_stringsVars
             /\ [SearchNext]_searchVars /\ [TlbNext]_tlbVars /\ [PmmNext]_pmmVars
  BY <1>2 DEF Next, FormatStep, StringsStep, SearchStep, TranslationStep, PmmStep, vars
<1> QED
  BY <1>1, <1>2, PTL DEF Spec, FormatSpec, StringsSpec, SearchSpec, TlbSpec, PmmSpec
=============================================================================
