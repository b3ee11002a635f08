----------------------------- MODULE Filesystem -----------------------------
(***************************************************************************)
(* filesystem_lib.c over storage_lib.c: one partition, a ring of elements  *)
(* threaded through the storage by record-ids, with a backup of its first  *)
(* header in the swap page, under power failures and failing storage       *)
(* operations.                                                             *)
(*                                                                         *)
(* Addresses are relative to the partition, the swap page lies below it.   *)
(* A cell is one field of a header or one unit of data: the smallest piece *)
(* that is written at once.  A cell is tagged with what was written there, *)
(* so that CRCs do not collide and data is not taken for a record-id.      *)
(*                                                                         *)
(* Every operation is an operator on a state of the library,               *)
(*   [disk, track, ram, it, ops],                                          *)
(* where ops lists the device operations performed so far: a power failure *)
(* or an error in the middle of a call leaves the effect of a prefix.      *)
(***************************************************************************)
EXTENDS Integers, Sequences, SequencesExt, FiniteSets

CONSTANTS
  is_dynamic,      \* dynamic or static partition
  has_element_crc, \* element CRC enabled
  element_len,     \* element length of a static partition
  Lens,            \* bound: lengths the application stores, within 0 .. 3
  partition_size,
  UnitSize,        \* 1: the partition is in EEPROM; > 1: cells per flash page
  MaxId,           \* the largest record-id (0xFFFE in the code)
  MaxStores,       \* bound: store attempts
  MaxCrashes,      \* bound: power failures
  MaxFails,        \* bound: store attempts ended by a storage error
  MaxFaults,       \* bound: power failures and storage errors together
  MaxClears        \* bound: clear_partition calls

VARIABLES
  mode,      \* "down" until the partition is registered, then "up"
  disk,      \* address -> cell
  track,     \* storage1_last_stored_element_addresses (lost at power failure)
  ram,       \* partitions[index] (lost at power failure)
  it,        \* partition_iterators[index] (lost at power failure)
  attempts,  \* elements given to store so far; an element's data is its number
  retry,     \* length of the element whose store failed, 0 if there is none
  stored,    \* the elements whose store returned NRF_SUCCESS since the clear
  base,      \* attempts made before the last clear
  left,      \* the headers that unfinished stores left, record-id included
  crashes, fails, clears

libvars == <<disk, track, ram, it>>
ghosts == <<attempts, retry, stored, base, left>>
bounds == <<crashes, fails, clears>>
vars == <<mode, libvars, ghosts, bounds>>
-----------------------------------------------------------------------------
(* Cells and records. *)

Cell(t, n) == [t |-> t, n |-> n]
Blank == Cell("blank", 0)
Junk == Cell("junk", 0)

MetaLen == 3
Flag(b) == IF b THEN 1 ELSE 0
(* filesystem_get_element_header_len *)
HdrLen == 1 + Flag(is_dynamic) + Flag(has_element_crc)
SwapAddress == -(MetaLen + HdrLen)
Addresses == SwapAddress .. partition_size + HdrLen - 1

(* filesystem_register_partition takes no partition too small for its      *)
(* first header and one static element; store_element takes only elements  *)
(* of that length for a static partition.                                  *)
ASSUME PartitionAssumption ==
  /\ is_dynamic \in BOOLEAN /\ has_element_crc \in BOOLEAN
  /\ element_len \in 0 .. 3
  /\ Lens \subseteq 0 .. 3
  /\ is_dynamic \/ Lens \subseteq {element_len}
  /\ partition_size \in Nat
  /\ MetaLen + HdrLen + element_len <= partition_size
  /\ UnitSize \in Nat \ {0}
  /\ MaxId \in Nat \ {0}

HeaderLenAt(a) == IF a = 0 THEN MetaLen + HdrLen ELSE HdrLen

(* increment_record_id, decrement_record_id *)
Inc(id) == IF id >= MaxId THEN 1 ELSE id + 1
Dec(id) == IF id <= 1 THEN MaxId ELSE id - 1

(* ^ on lengths of two bits *)
Xor(a, b) ==
  2 * (((a \div 2) + (b \div 2)) % 2) + ((a + b) % 2)

NoHeader == [id |-> 0, xor |-> 0, crc |-> 0]
NoMeta == [crc |-> 0, flen |-> 0, last |-> 0]
NoIterator == [valid |-> FALSE, addr |-> 0, len |-> 0, hdr |-> NoHeader]

(* crc16_compute: injective on what it is computed over. *)
HeaderCrc(flen, last, h) ==
  (((flen * 64 + last) * 16 + h.id) * 4 + h.xor) * 128 + h.crc
DataCrc(v, len) == 4 * v + len

MetaCells(m) == <<Cell("mcrc", m.crc), Cell("flen", m.flen), Cell("last", m.last)>>
HeaderCells(h) ==
  <<Cell("id", h.id)>>
  \o (IF is_dynamic THEN <<Cell("xor", h.xor)>> ELSE << >>)
  \o (IF has_element_crc THEN <<Cell("crc", h.crc)>> ELSE << >>)
DataCells(v, len) == [i \in 1 .. len |-> Cell("data", v)]
BlankCells(len) == [i \in 1 .. len |-> Blank]

Read(d, a) == IF a \in DOMAIN d THEN d[a] ELSE Blank
ReadCells(d, a, len) == [i \in 1 .. len |-> Read(d, a + i - 1)]

(* filesystem_deserialize_element_header, filesystem_deserialize_metadata *)
HeaderAt(d, a) ==
  [id  |-> IF Read(d, a).t = "id" THEN Read(d, a).n ELSE 0,
   xor |-> IF is_dynamic THEN Read(d, a + 1).n % 4 ELSE 0,
   crc |-> IF has_element_crc /\ Read(d, a + HdrLen - 1).t = "crc"
             THEN Read(d, a + HdrLen - 1).n ELSE 0]
MetaAt(d, a) ==
  [crc |-> Read(d, a).n, flen |-> Read(d, a + 1).n, last |-> Read(d, a + 2).n]

(* The header-crc over metadata and first element-header is correct. *)
ValidFirst(d, a) ==
  LET m == MetaAt(d, a)
      h == HeaderAt(d, a + MetaLen)
  IN  /\ ReadCells(d, a, MetaLen + HdrLen) = MetaCells(m) \o HeaderCells(h)
      /\ m.crc = HeaderCrc(m.flen, m.last, h)
-----------------------------------------------------------------------------
(* The devices.  A storage_store is a sequence of device operations.       *)

(* Programming flash only clears bits: a cell that was not erased before   *)
(* keeps its contents under 0xFF and is spoiled by anything else.          *)
Program(old, new) ==
  IF UnitSize = 1 \/ old = Blank THEN new
  ELSE IF new \in {Blank, old} THEN old ELSE Junk

Apply(s, op) ==
  CASE op.k = "put" ->
         [s EXCEPT !.disk[op.at] =
            IF op.at < 0 THEN op.cell ELSE Program(s.disk[op.at], op.cell)]
    [] op.k = "erase" ->
         [s EXCEPT !.disk = [a \in DOMAIN s.disk |->
            IF a >= 0 /\ a \div UnitSize = op.at THEN Blank ELSE s.disk[a]]]
    [] op.k = "track" -> [s EXCEPT !.track = op.set]

(* The states the device operations lead through, s first. *)
Trace(s, ops) ==
  LET after[k \in 0 .. Len(ops)] ==
        IF k = 0 THEN s ELSE Apply(after[k - 1], ops[k])
  IN  after

Run(s, ops) == Trace(s, ops)[Len(ops)]

Put(a, c) == [k |-> "put", at |-> a, cell |-> c]
Puts(a, cells) == [i \in DOMAIN cells |-> Put(a + i - 1, cells[i])]
Erase(p) == [k |-> "erase", at |-> p]
SetTrack(set) == [k |-> "track", set |-> set]

(* Mutant: the bytes in front of the address are not written back. *)
FlashStoreMut(s, a, cells) ==
  LET end   == a + Len(cells) - 1
      first == a \div UnitSize
      last  == end \div UnitSize
      fresh == \E x \in s.track : x \div UnitSize = first /\ x < a
      from  == IF fresh THEN first + 1 ELSE first
  IN  <<SetTrack({end})>>
      \o [i \in 1 .. last - from + 1 |-> Erase(from + i - 1)]
      \o Puts(a, cells)

(* storage1_store: the first page is not erased if what was last stored on *)
(* it lies before the address; otherwise the bytes in front of the address *)
(* are written back after the erase, the ones behind it are lost.          *)
FlashStore(s, a, cells) ==
  LET end   == a + Len(cells) - 1
      first == a \div UnitSize
      last  == end \div UnitSize
      fresh == \E x \in s.track : x \div UnitSize = first /\ x < a
      from  == IF fresh THEN first + 1 ELSE first
      kept  == {x \in s.track : x \div UnitSize \notin first .. last}
      track1 == IF end % UnitSize = UnitSize - 1 THEN kept ELSE kept \cup {end}
  IN  <<SetTrack(track1)>>
      \o [i \in 1 .. last - from + 1 |-> Erase(from + i - 1)]
      \o (IF fresh THEN << >>
          ELSE Puts(first * UnitSize,
                    ReadCells(s.disk, first * UnitSize, a - first * UnitSize)))
      \o Puts(a, cells)

(* storage_store and storage_clear; the swap page is in EEPROM. *)
StoreOps(s, a, cells) ==
  IF cells = << >> THEN << >>
  ELSE IF UnitSize = 1 \/ a < 0 THEN Puts(a, cells)
  ELSE FlashStore(s, a, cells)

Write(s, a, cells) ==
  LET Performed(ops) == [Run(s, ops) EXCEPT !.ops = s.ops \o ops]
  IN  Performed(StoreOps(s, a, cells))

(* storage_get_unit_address_limits *)
UnitStart(a) == (a \div UnitSize) * UnitSize
-----------------------------------------------------------------------------
(* Reading the ring. *)

(* filesystem_read_element_header: a first header that is not valid is     *)
(* restored from the swap page; a valid one updates the metadata in RAM.   *)
ReadElementHeader(s, a) ==
  LET Loaded(s1, from) ==
        [ret |-> "SUCCESS", hdr |-> HeaderAt(s1.disk, from + MetaLen),
         s |-> [s1 EXCEPT !.ram.meta = MetaAt(s1.disk, from)]]
  IN  CASE a # 0 ->
             [ret |-> "SUCCESS", hdr |-> HeaderAt(s.disk, a), s |-> s]
        [] a = 0 /\ ValidFirst(s.disk, 0) -> Loaded(s, 0)
        [] a = 0 /\ ~ValidFirst(s.disk, 0) /\ ValidFirst(s.disk, SwapAddress) ->
             Loaded(Write(s, 0, ReadCells(s.disk, SwapAddress, MetaLen + HdrLen)),
                    SwapAddress)
        [] OTHER -> [ret |-> "NOT_FOUND", hdr |-> NoHeader, s |-> s]

(* The length of the neighbour across a link. *)
LinkedLen(s, len, xor) == IF is_dynamic THEN Xor(len, xor) ELSE s.ram.meta.flen

(* Mutant: the end of the partition is not checked. *)
GetNextMut(s, a, id, len) ==
  LET next  == a + HeaderLenAt(a) + len
      r     == ReadElementHeader(s, next)
      first == ReadElementHeader(r.s, 0)
  IN  IF r.hdr.id = Inc(id)
        THEN [ret |-> "SUCCESS", addr |-> next, hdr |-> r.hdr, s |-> r.s]
        ELSE [ret  |-> IF first.ret = "SUCCESS" /\ first.hdr.id # Inc(id)
                         THEN "NOT_FOUND" ELSE first.ret,
              addr |-> 0, hdr |-> first.hdr, s |-> first.s]

(* filesystem_get_next_element_header *)
GetNext(s, a, id, len) ==
  LET next == a + HeaderLenAt(a) + len
      Wrapped(first) ==
        [ret  |-> IF first.ret = "SUCCESS" /\ first.hdr.id # Inc(id)
                    THEN "NOT_FOUND" ELSE first.ret,
         addr |-> 0, hdr |-> first.hdr, s |-> first.s]
      Behind(r) ==
        IF /\ r.hdr.id = Inc(id)
           /\ next + HdrLen + LinkedLen(r.s, len, r.hdr.xor) <= partition_size
          THEN [ret |-> "SUCCESS", addr |-> next, hdr |-> r.hdr, s |-> r.s]
          ELSE Wrapped(ReadElementHeader(r.s, 0))
  IN  Behind(ReadElementHeader(s, next))

(* filesystem_get_previous_element_header *)
GetPrevious(s, a, id, len) ==
  LET At(addr, r) ==
        [ret  |-> IF r.ret = "SUCCESS" /\ r.hdr.id # Dec(id)
                    THEN "NOT_FOUND" ELSE r.ret,
         addr |-> addr, hdr |-> r.hdr, s |-> r.s]
      Before(cur) ==
        LET plen == LinkedLen(cur.s, len, cur.hdr.xor)
            addr == IF a <= MetaLen + HdrLen + plen THEN 0 ELSE a - plen - HdrLen
        IN  At(addr, ReadElementHeader(cur.s, addr))
      last == s.ram.meta.last
  IN  CASE a # 0 -> Before(ReadElementHeader(s, a))
        [] a = 0 /\ last > 0 -> At(last, ReadElementHeader(s, last))
        [] OTHER -> [ret |-> "NOT_FOUND", addr |-> 0, hdr |-> NoHeader, s |-> s]

(* One step along the record-ids, unless they break off or lead back. *)
Advance(c) ==
  LET To(n) ==
        IF n.ret = "SUCCESS" /\ n.addr > c.addr
          THEN [addr |-> n.addr, id |-> n.hdr.id,
                len |-> LinkedLen(c.s, c.len, n.hdr.xor), s |-> n.s]
          ELSE [c EXCEPT !.s = n.s]
  IN  To(GetNext(c.s, c.addr, c.id, c.len))

(* The positions the search for the latest element goes through. *)
Walk(start) ==
  LET at[k \in 0 .. partition_size \div HdrLen] ==
        IF k = 0 THEN start ELSE Advance(at[k - 1])
  IN  at

(* filesystem_find_latest_element_address, the first header being valid. *)
FindLatest(s) ==
  LET From(r) ==
        Walk([addr |-> 0, id |-> r.hdr.id, len |-> r.s.ram.meta.flen, s |-> r.s])
  IN  From(ReadElementHeader(s, 0))[partition_size \div HdrLen]

(* filesystem_register_partition *)
RegisterPartition(s) ==
  LET fresh == [has |-> FALSE, laddr |-> 0, lid |-> 1, llen |-> 0,
                meta |-> [NoMeta EXCEPT !.flen = IF is_dynamic THEN 0 ELSE element_len],
                fhdr |-> s.ram.fhdr]
      Continued(l) ==
        [l.s EXCEPT !.ram = [l.s.ram EXCEPT !.has = TRUE, !.laddr = l.addr,
                                            !.lid = l.id, !.llen = l.len]]
      Found(r) == IF r.ret = "SUCCESS" THEN Continued(FindLatest(r.s)) ELSE r.s
  IN  Found(ReadElementHeader([s EXCEPT !.ram = fresh], 0))
-----------------------------------------------------------------------------
(* The iterator. *)

Invalidated(s) == [s EXCEPT !.it.valid = FALSE]

(* filesystem_iterator_check_validity *)
CheckValidity(s) ==
  LET Same(h) == /\ h.id = s.it.hdr.id
                 /\ has_element_crc => h.crc = s.it.hdr.crc
                 /\ is_dynamic => h.xor = s.it.hdr.xor
      Compared(r) == IF r.ret = "SUCCESS" /\ Same(r.hdr)
                       THEN [ret |-> "SUCCESS", s |-> r.s]
                       ELSE [ret |-> "INVALID_STATE", s |-> Invalidated(r.s)]
  IN  CASE ~s.it.valid -> [ret |-> "INVALID_STATE", s |-> s]
        [] s.it.valid /\ ~s.ram.has ->
             [ret |-> "INVALID_STATE", s |-> Invalidated(s)]
        [] OTHER -> Compared(ReadElementHeader(s, s.it.addr))

(* Mutant: the element under the iterator is not protected. *)
IteratorConflictMut(s, a, len) == [conflict |-> FALSE, s |-> CheckValidity(s).s]

(* filesystem_check_iterator_conflict: the new element would touch the one *)
(* under the iterator, or the flash page in front of it.                   *)
IteratorConflict(s, a, len) ==
  LET end == a + len + HeaderLenAt(a)
      Against(c) ==
        LET istart == UnitStart(c.s.it.addr)
            iend   == c.s.it.addr + c.s.it.len + HeaderLenAt(c.s.it.addr)
        IN  [conflict |-> /\ c.ret = "SUCCESS"
                          /\ \/ istart <= a /\ a < iend
                             \/ istart < end /\ end <= iend
                             \/ a <= istart /\ iend <= end,
             s |-> c.s]
  IN  Against(CheckValidity(s))

(* filesystem_iterator_init *)
IteratorInit(s) ==
  LET Started(r) ==
        IF r.ret = "SUCCESS"
          THEN [ret |-> "SUCCESS",
                s |-> [r.s EXCEPT !.it = [valid |-> TRUE, addr |-> s.ram.laddr,
                                          len |-> s.ram.llen, hdr |-> r.hdr]]]
          ELSE [ret |-> "INVALID_STATE", s |-> Invalidated(r.s)]
  IN  IF s.ram.has THEN Started(ReadElementHeader(s, s.ram.laddr))
      ELSE [ret |-> "INVALID_STATE", s |-> Invalidated(s)]

Moved(s, n, len) ==
  [ret |-> "SUCCESS",
   s |-> [s EXCEPT !.it = [valid |-> TRUE, addr |-> n.addr, len |-> len, hdr |-> n.hdr]]]

(* filesystem_iterator_next *)
IteratorNext(s) ==
  LET To(i, n) == IF n.ret # "SUCCESS" THEN [ret |-> n.ret, s |-> n.s]
                  ELSE Moved(n.s, n, LinkedLen(n.s, i.len, n.hdr.xor))
      From(c) == IF c.ret # "SUCCESS" THEN c
                 ELSE To(c.s.it, GetNext(c.s, c.s.it.addr, c.s.it.hdr.id, c.s.it.len))
  IN  From(CheckValidity(s))

(* filesystem_iterator_previous *)
IteratorPrevious(s) ==
  LET To(i, p) ==
        LET plen == LinkedLen(p.s, i.len, i.hdr.xor)
        IN  IF p.ret # "SUCCESS" \/ p.addr + HdrLen + plen > partition_size
              THEN [ret |-> "NOT_FOUND", s |-> p.s]
              ELSE Moved(p.s, p, plen)
      From(c) == IF c.ret # "SUCCESS" THEN c
                 ELSE To(c.s.it, GetPrevious(c.s, c.s.it.addr, c.s.it.hdr.id, c.s.it.len))
  IN  From(CheckValidity(s))

(* filesystem_iterator_read_element: the value read, 0 for INVALID_DATA.   *)
IteratorRead(s) ==
  LET From(c) ==
        LET i     == c.s.it
            cells == ReadCells(c.s.disk, i.addr + HeaderLenAt(i.addr), i.len)
            v     == IF cells = << >> THEN i.hdr.crc \div 4 ELSE cells[1].n
            whole == cells = DataCells(v, i.len)
        IN  [ret |-> IF c.ret # "SUCCESS" THEN c.ret
                     ELSE IF has_element_crc /\ ~(whole /\ i.hdr.crc = DataCrc(v, i.len))
                       THEN "INVALID_DATA" ELSE "SUCCESS",
             val |-> v, s |-> c.s]
  IN  From(CheckValidity(s))
-----------------------------------------------------------------------------
(* Writing the ring. *)

(* filesystem_backup_first_element_header: written only if it differs. *)
Backup(s, cells) ==
  IF ReadCells(s.disk, SwapAddress, Len(cells)) = cells
    THEN s ELSE Write(s, SwapAddress, cells)

(* Where the next element goes, with which record-id and link. *)
Placement(r, len) ==
  LET next == r.laddr + HeaderLenAt(r.laddr) + r.llen
  IN  IF ~r.has THEN [at |-> 0, id |-> r.lid, xor |-> 0]
      ELSE [at  |-> IF next + HdrLen + len <= partition_size THEN next ELSE 0,
            id  |-> Inc(r.lid),
            xor |-> IF is_dynamic THEN Xor(r.llen, len) ELSE 0]

Header(p, v, len) ==
  [id |-> p.id, xor |-> p.xor, crc |-> IF has_element_crc THEN DataCrc(v, len) ELSE 0]

(* Mutant: the link back to the latest element is forgotten. *)
FirstMetadataMut(s, p, h, len) ==
  [crc |-> HeaderCrc(len, 0, h), flen |-> len, last |-> 0]

(* The metadata of a new first element: it links back to the latest        *)
(* element unless it overwrites that one.                                  *)
FirstMetadata(s, p, h, len) ==
  LET last == IF MetaLen + HdrLen + len >= s.ram.laddr THEN 0 ELSE s.ram.laddr
  IN  [crc |-> HeaderCrc(len, last, h), flen |-> len, last |-> last]

(* Mutant: a stale header behind the new element is left alone. *)
ClearStaleNextMut(s, p, len) ==
  GetNext(s, p.at, p.id, len).s

(* A header behind the new element that would continue its record-ids is   *)
(* left over from an earlier store and is cleared first.                   *)
ClearStaleNext(s, p, len) ==
  LET Cleared(n) == IF n.ret = "SUCCESS" /\ n.addr > p.at
                      THEN Write(n.s, n.addr, BlankCells(HdrLen)) ELSE n.s
  IN  Cleared(GetNext(s, p.at, p.id, len))

(* Mutant: the new first header is not backed up before it is written. *)
BackupFirstMut(s, p) == s

(* The first header is backed up before its unit is written. *)
BackupFirst(s, p) ==
  IF UnitStart(p.at) = 0
    THEN Backup(s, MetaCells(s.ram.meta) \o HeaderCells(s.ram.fhdr)) ELSE s

(* filesystem_store_element.  "checked" is the state up to where the RAM   *)
(* copies of metadata and first header are replaced, "begun" the one just  *)
(* after, "s" the final one.                                               *)
StoreElement(s, v, len) ==
  LET p == Placement(s.ram, len)
      h == Header(p, v, len)
      WriteData(checked, begun, cells, headed) ==
        IF ReadCells(headed.disk, p.at, Len(cells)) # cells
          THEN [ret |-> "INTERNAL", checked |-> checked, begun |-> begun, s |-> headed]
          ELSE [ret |-> "SUCCESS", checked |-> checked, begun |-> begun,
                s |-> [Write(headed, p.at + HeaderLenAt(p.at), DataCells(v, len))
                         EXCEPT !.ram = [@ EXCEPT !.has = TRUE, !.laddr = p.at,
                                                  !.lid = p.id, !.llen = len]]]
      WriteHeader(checked, begun) ==
        LET cells == IF p.at = 0 THEN MetaCells(begun.ram.meta) \o HeaderCells(h)
                                 ELSE HeaderCells(h)
        IN  WriteData(checked, begun, cells, Write(BackupFirst(begun, p), p.at, cells))
      Begin(checked) ==
        WriteHeader(checked,
          IF p.at # 0 THEN checked
          ELSE [checked EXCEPT !.ram.meta = FirstMetadata(checked, p, h, len),
                               !.ram.fhdr = h])
      Check(c) ==
        IF c.conflict
          THEN [ret |-> "INTERNAL", checked |-> c.s, begun |-> c.s, s |-> c.s]
          ELSE Begin(ClearStaleNext(c.s, p, len))
  IN  IF p.at + HeaderLenAt(p.at) + len > partition_size
        THEN [ret |-> "NO_MEM", checked |-> s, begun |-> s, s |-> s]
        ELSE Check(IteratorConflict(s, p.at, len))

(* filesystem_clear_partition *)
ClearPartition(s) ==
  LET blank == BlankCells(MetaLen + HdrLen)
      Cleared(r) ==
        [Write(Backup(r.s, blank), 0, blank) EXCEPT
           !.ram = [@ EXCEPT !.has = FALSE, !.laddr = 0, !.llen = 0,
                     !.lid = IF r.ret = "SUCCESS" THEN Inc(r.hdr.id) ELSE 1]]
  IN  Cleared(ReadElementHeader(s, 0))
-----------------------------------------------------------------------------
(* The partition at work. *)

Now == [disk |-> disk, track |-> track, ram |-> ram, it |-> it, ops |-> << >>]

Become(s) ==
  /\ disk' = s.disk
  /\ track' = s.track
  /\ ram' = s.ram
  /\ it' = s.it

NoRam == [has |-> FALSE, laddr |-> 0, lid |-> 0, llen |-> 0,
          meta |-> NoMeta, fhdr |-> NoHeader]

(* Static memory is zero at power-up. *)
PowerLost(d) ==
  [disk |-> d, track |-> {}, ram |-> NoRam, it |-> NoIterator, ops |-> << >>]

Init ==
  /\ mode = "down"
  /\ disk = [a \in Addresses |-> Blank]
  /\ track = {}
  /\ ram = NoRam
  /\ it = NoIterator
  /\ attempts = 0
  /\ retry = 0
  /\ stored = {}
  /\ base = 0
  /\ left = {}
  /\ crashes = 0
  /\ fails = 0
  /\ clears = 0

Register ==
  /\ mode = "down"
  /\ mode' = "up"
  /\ Become(RegisterPartition(Now))
  /\ UNCHANGED <<ghosts, bounds>>

MayCrash == crashes < MaxCrashes /\ crashes + fails < MaxFaults

(* The power fails while the first header is restored from the swap page.  *)
RegisterCrash ==
  /\ mode = "down"
  /\ MayCrash
  /\ \E ops \in {RegisterPartition(Now).ops} : \E k \in 1 .. Len(ops) - 1 :
       Become(PowerLost(Trace(Now, ops)[k].disk))
  /\ crashes' = crashes + 1
  /\ UNCHANGED <<mode, ghosts, fails, clears>>

Element(v, p, len, meta) ==
  [v |-> v, at |-> p.at, len |-> len, hdr |-> Header(p, v, len),
   meta |-> IF p.at = 0 THEN meta ELSE NoMeta]

(* The first metadata a reboot finds, and the header of the element at an  *)
(* address.                                                                *)
FirstAt(d) == IF ValidFirst(d, 0) THEN 0 ELSE SwapAddress
HeaderOf(d, at) == ReadCells(d, IF at = 0 THEN FirstAt(d) + MetaLen ELSE at, HdrLen)

(* The header that the unfinished store of element v left behind, in part  *)
(* or whole: it links to the older elements.                               *)
LeftBy(d, p, v, len) ==
  LET cells == HeaderOf(d, p.at)
      whole == cells = HeaderCells(Header(p, v, len))
  IN  IF whole \/ (p.at # 0 /\ cells[1] = Cell("id", p.id))
        THEN {[v |-> v, at |-> p.at, cells |-> cells, whole |-> whole]} ELSE {}

(* The processing code keeps a chunk open until it is stored: after a      *)
(* failure it comes back with the same element.                            *)
MayStore(len) ==
  /\ mode = "up"
  /\ attempts < MaxStores
  /\ retry \in {0, len}

(* A store that runs to its end, whatever it returns. *)
Store(len) ==
  /\ MayStore(len)
  /\ \E r \in {StoreElement(Now, attempts + 1, len)} :
       /\ Become(r.s)
       /\ attempts' = IF r.ret = "INTERNAL" THEN attempts ELSE attempts + 1
       /\ retry' = IF r.ret = "INTERNAL" THEN len ELSE 0
       /\ stored' = IF r.ret = "SUCCESS"
                      THEN stored \cup {Element(attempts + 1, Placement(ram, len), len, r.s.ram.meta)}
                      ELSE stored
  /\ left' = {h \in left : <<h.at, h.v>> # <<Placement(ram, len).at, attempts + 1>>}
  /\ UNCHANGED <<mode, base, bounds>>

(* A storage operation fails on the way: the effects so far remain, and    *)
(* the store returns NRF_ERROR_INTERNAL.                                   *)
StoreFails(len) ==
  /\ MayStore(len)
  /\ fails < MaxFails /\ crashes + fails < MaxFaults
  /\ \E r \in {StoreElement(Now, attempts + 1, len)} :
       /\ r.ret = "SUCCESS"
       /\ \E k \in 0 .. Len(r.s.ops) :
            Become([Trace(Now, r.s.ops)[k] EXCEPT
                      !.it = r.s.it,
                      !.ram = IF k < Len(r.checked.ops) THEN r.checked.ram
                                                        ELSE r.begun.ram])
  /\ retry' = len
  /\ left' = left \cup LeftBy(disk', Placement(ram, len), attempts + 1, len)
  /\ fails' = fails + 1
  /\ UNCHANGED <<mode, attempts, stored, base, crashes, clears>>

(* The power fails on the way. *)
StoreCrash(len) ==
  /\ MayStore(len)
  /\ MayCrash
  /\ \E r \in {StoreElement(Now, attempts + 1, len)} :
       /\ r.ret = "SUCCESS"
       /\ \E k \in 0 .. Len(r.s.ops) :
            Become(PowerLost(Trace(Now, r.s.ops)[k].disk))
  /\ mode' = "down"
  /\ attempts' = attempts + 1
  /\ retry' = 0
  /\ left' = left \cup LeftBy(disk', Placement(ram, len), attempts + 1, len)
  /\ crashes' = crashes + 1
  /\ UNCHANGED <<stored, base, fails, clears>>

Clear ==
  /\ mode = "up"
  /\ clears < MaxClears
  /\ Become(ClearPartition(Now))
  /\ clears' = clears + 1
  /\ stored' = {}
  /\ base' = attempts
  /\ UNCHANGED <<mode, attempts, retry, left, crashes, fails>>

(* After a power failure in the middle nothing is promised about what was  *)
(* stored before: it may be cleared or not.                                *)
ClearCrash ==
  /\ mode = "up"
  /\ clears < MaxClears
  /\ MayCrash
  /\ \E ops \in {ClearPartition(Now).ops} : \E k \in 0 .. Len(ops) - 1 :
       Become(PowerLost(Trace(Now, ops)[k].disk))
  /\ mode' = "down"
  /\ clears' = clears + 1
  /\ crashes' = crashes + 1
  /\ stored' = {}
  /\ attempts' = attempts + Flag(retry # 0)
  /\ retry' = 0
  /\ UNCHANGED <<base, left, fails>>

Next ==
  \/ Register
  \/ RegisterCrash
  \/ \E len \in Lens : Store(len) \/ StoreFails(len) \/ StoreCrash(len)
  \/ Clear
  \/ ClearCrash

Spec == Init /\ [][Next]_vars
-----------------------------------------------------------------------------
(* Properties. *)

(* The partition as the application sees it: iterator_init, then read and  *)
(* previous until there is no previous element; newest first, with value 0 *)
(* for an element whose data is not valid.                                 *)
Readable(s) ==
  LET Step(acc, k) ==
        LET r == IteratorRead(acc.s)
            p == IteratorPrevious(r.s)
        IN  IF acc.ret # "SUCCESS" THEN acc
            ELSE [ret |-> p.ret, s |-> p.s,
                  vals |-> Append(acc.vals,
                             [at |-> acc.s.it.addr,
                              v  |-> IF r.ret = "SUCCESS" THEN r.val ELSE 0])]
      start == IteratorInit(s)
      depth == partition_size \div HdrLen
  IN  FoldLeft(Step, [ret |-> start.ret, s |-> start.s, vals |-> << >>],
               [k \in 1 .. depth |-> k]).vals

(* What the next power-up makes of the storage as it is. *)
AfterReboot == RegisterPartition(PowerLost(disk))

(* An element whose header and data are still on the storage, as stored.   *)
Intact(e) ==
  /\ ReadCells(disk, e.at, HeaderLenAt(e.at)) =
       (IF e.at = 0 THEN MetaCells(e.meta) ELSE << >>) \o HeaderCells(e.hdr)
  /\ ReadCells(disk, e.at + HeaderLenAt(e.at), e.len) = DataCells(e.v, e.len)

(* The first header, on its place or in the swap page, has given up the    *)
(* element before it and all older ones: that element begins inside the    *)
(* new first element, or exactly where it ends.                            *)
Unlinked(e) ==
  LET m == MetaAt(disk, FirstAt(disk))
      before == Dec(HeaderAt(disk, FirstAt(disk) + MetaLen).id)
      Gone(at, id, v) ==
        id = before /\ 0 < at /\ at <= HeaderLenAt(0) + m.flen /\ e.v <= v
  IN  /\ m.last = 0
      /\ \/ \E f \in stored : Gone(f.at, f.hdr.id, f.v)
         \/ \E h \in left : Gone(h.at, h.cells[1].n, h.v)

(* The elements that are promised: nothing newer was overwritten, be it an *)
(* element or a header that an unfinished store left and that links on.    *)
Promised ==
  {e \in stored :
     /\ \A f \in stored : f.v >= e.v => Intact(f)
     /\ \A h \in left : h.v > e.v => HeaderOf(disk, h.at) = h.cells
     /\ ~Unlinked(e)}

(* The library's state is of its type, and the iterator and the latest     *)
(* element lie inside the partition (filesystem_lib.c never checks it).    *)
TypeOK ==
  /\ mode \in {"down", "up"}
  /\ DOMAIN disk = Addresses
  /\ track \subseteq 0 .. partition_size - 1
  /\ ram.lid \in 0 .. MaxId
  /\ ram.has => ram.laddr + HeaderLenAt(ram.laddr) + ram.llen <= partition_size
  /\ it.valid => it.addr + HdrLen + it.len <= partition_size
  /\ \A a \in partition_size .. partition_size + HdrLen - 1 : disk[a] = Blank

(* Every element whose store returned NRF_SUCCESS, and that no later store *)
(* overwrote, can be read back: now, and after a power failure at this     *)
(* moment, whatever failed or lost power on the way                        *)
(* (filesystem_read_element_header's restore from the swap page,           *)
(* find_latest_element_address, the links of store_element).  Two things   *)
(* cut the way to an element that is itself intact: what is newer and      *)
(* links to it was overwritten, or the first element of a new lap ends at  *)
(* or behind the beginning of the element before it (Unlinked).            *)
NothingLost ==
  LET promised == {[at |-> e.at, v |-> e.v] : e \in Promised}
  IN  /\ promised \subseteq ToSet(Readable(AfterReboot))
      /\ mode = "up" => promised \subseteq ToSet(Readable(Now))

(* What q holds was stored since the last clear, newest first. *)
Genuine(q) ==
  /\ \A i \in DOMAIN q : base < q[i].v /\ q[i].v <= attempts + Flag(retry # 0)
  /\ \A i, j \in DOMAIN q : i < j => q[i].v > q[j].v

(* What is read back was stored since the last clear, newest first: no     *)
(* left-over of an earlier lap or of before a clear_partition shows up     *)
(* again, and none twice, up to a header that was written in part: from    *)
(* there on the links cannot be trusted.                                   *)
NothingResurrected ==
  LET Replaced(h) == \E e \in stored : e.at = h.at /\ e.v > h.v
      Partial == {h.at : h \in {h \in left : ~h.whole /\ ~Replaced(h)}}
      Trusted(q) == SubSeq(q, 1 + SelectLastInSeq(q, LAMBDA e : e.at \in Partial), Len(q))
      Whole(s) == SelectSeq(Trusted(Readable(s)), LAMBDA e : e.v # 0)
  IN  Genuine(Whole(AfterReboot)) /\ (mode = "up" => Genuine(Whole(Now)))

(* The same without exception: the CRC in the header detects every element *)
(* that was not stored as it is read (filesystem_lib.h: "a 2-Byte          *)
(* CRC-value can be stored in the header to detect corrupted data").       *)
CorruptionDetected ==
  LET Valid(s) == SelectSeq(Readable(s), LAMBDA e : e.v # 0)
  IN  Genuine(Valid(AfterReboot)) /\ (mode = "up" => Genuine(Valid(Now)))

(* The first header survives a power failure in the middle of a store: a   *)
(* partition that held an element is not empty at the next power-up        *)
(* (filesystem_lib.h: "this backup is needed to keep a valid partition     *)
(* even if the first-element-header is corrupted during these              *)
(* store-operations").                                                     *)
PartitionSurvives == stored # {} => AfterReboot.ram.has

(* As long as the iterator stays on an element, no store changes what it   *)
(* reads there (filesystem_check_iterator_conflict).                       *)
IteratorStable ==
  [][mode = "up" /\ mode' = "up" /\ it.valid /\ it' = it /\ ram'.has
       /\ IteratorRead(Now).ret = "SUCCESS"
     => IteratorRead(Now)'.ret = "SUCCESS"
        /\ IteratorRead(Now)'.val = IteratorRead(Now).val]_vars
=============================================================================
